---- MODULE Spec2Model ----
(***************************************************************************)
(* Model of the scene mapping tools of the Unity MCP server:               *)
(*   Server/src/services/tools/orchestrate_mapping.py   (orchestrate_mapping) *)
(*   Server/src/services/resources/scene_outline.py     (get_scene_outline)   *)
(*   Server/src/services/tools/manage_mapping.py        (manage_mapping)      *)
(* and of the configuration module of its command line client:             *)
(*   Server/src/cli/utils/config.py                     (get_config)       *)
(*                                                                         *)
(* Python strings are sequences of code points, so that rsplit, "in" and   *)
(* the ordering used by list.sort are computed and not assumed.  A falsy   *)
(* string (None or "") is the empty sequence: every place of the code that *)
(* reads hierarchyPath or globalId only tests its truthiness.              *)
(***************************************************************************)
EXTENDS Integers, Sequences, FiniteSets, TLC

VARIABLES
    tool,       \* which entry point serves the request
    pc,         \* position of the coroutine (the await it is suspended at)
    offset,     \* local "offset" of the pagination loop
    objects,    \* local "objects": the accumulated records
    forest,     \* "roots" and every node's "children", keyed by path
    sent,       \* commands handed to send_with_unity_instance, in order
    pages,      \* get_scene_object_index responses received, in order
    active_scene,    \* local "active_scene" (its name)
    commit_response, \* local "commit_response"
    sidecar,    \* TRUE once _write_diagrams_json has written the file
    result,     \* what the coroutine gave its caller
    total_count,         \* local "total_count"
    diagram_suggestion,  \* local "diagram_suggestion"
    diagrams,   \* local "diagrams"
    rows,       \* local "rows"
    summary,    \* local "summary"
    grouping_lenses, \* local "grouping_lenses"
    suspended,  \* the locals of a second request, suspended at an await
    config,     \* module global "_config" of cli/utils/config.py
    environ,    \* os.environ
    created,    \* number of CLIConfig instances from_env has made
    returned,   \* the last call of get_config or set_config and its value
    last_set,   \* argument of the last set_config
    gets        \* number of get_config calls

vars == <<tool, pc, offset, objects, forest, sent, pages, active_scene,
          commit_response, sidecar, result,
          total_count, diagram_suggestion, diagrams, rows,
          summary, grouping_lenses,
          suspended, config, environ, created, returned, last_set, gets>>

\* the locals of the request coroutine that the tree helpers do not touch
requestVars == <<offset, sent, pages, active_scene, commit_response, sidecar, result>>

\* the locals that orchestrate_mapping computes between the tree and the commit
planVars == <<total_count, diagram_suggestion, diagrams, rows>>

\* the summary and the grouping lenses of orchestrate_mapping
lensVars == <<summary, grouping_lenses>>

\* the suspended request
pairVars == <<suspended>>

\* the state of the CLI configuration module
cliVars == <<config, environ, created, returned, last_set, gets>>

-----------------------------------------------------------------------------
(* Bounds of the model *)

MaxDepth == 2       \* segments in a generated hierarchy path
MaxObjects == 3     \* records handed to the pure helpers
MaxFetches == 2     \* page fetches of one request

-----------------------------------------------------------------------------
(* Strings *)

SLASH == 47         \* ord("/")

Names == {<<65>>, <<66>>}       \* "A", "B"

RECURSIVE PathsOfDepth(_)
PathsOfDepth(d) ==
    IF d = 1 THEN Names
    ELSE {p \o <<SLASH>> \o n : p \in PathsOfDepth(d - 1), n \in Names}

\* "A/A/A": a grandchild, present whatever MaxDepth is
DeepPath == <<65, SLASH, 65, SLASH, 65>>

\* "", "A", "B", "A/A", "A/B", ... : the empty string stands for a record
\* without a hierarchyPath
Paths == {<<>>, DeepPath} \cup UNION {PathsOfDepth(d) : d \in 1..MaxDepth}

GlobalIds == {"", "g1", "g2"}

\* a < b in Python's str ordering (code points, a proper prefix first)
RECURSIVE StrLess(_, _)
StrLess(a, b) ==
    IF b = <<>> THEN FALSE
    ELSE IF a = <<>> THEN TRUE
    ELSE IF Head(a) # Head(b) THEN Head(a) < Head(b)
    ELSE StrLess(Tail(a), Tail(b))

StrLeq(a, b) == a = b \/ StrLess(a, b)

\* "/" in path
HasSlash(path) == \E i \in 1..Len(path) : path[i] = SLASH

\* path.rsplit("/", 1)[0], for a path that holds a "/"
RsplitHead(path) ==
    LET last == CHOOSE i \in 1..Len(path) :
                    /\ path[i] = SLASH
                    /\ \A j \in (i + 1)..Len(path) : path[j] # SLASH
    IN  SubSeq(path, 1, last - 1)

\* path.startswith(prefix)
StartsWith(path, prefix) ==
    /\ Len(prefix) <= Len(path)
    /\ SubSeq(path, 1, Len(prefix)) = prefix

RECURSIVE SumSeq(_)
SumSeq(s) == IF s = <<>> THEN 0 ELSE Head(s) + SumSeq(Tail(s))

RECURSIVE Flatten(_)
Flatten(ss) == IF ss = <<>> THEN <<>> ELSE Head(ss) \o Flatten(Tail(ss))

Range(s) == {s[i] : i \in 1..Len(s)}

-----------------------------------------------------------------------------
(* Records of the scene object index *)

\* entry["object"] with its hierarchyPath and globalId
Entry(path, gid) == [object |-> [hierarchyPath |-> path, globalId |-> gid]]

PathOf(entry) == entry.object.hierarchyPath

Entries == {Entry(p, g) : p \in Paths, g \in GlobalIds}

EmptyForest == [roots |-> <<>>, children |-> <<>>]

-----------------------------------------------------------------------------
(* _build_tree *)

\* first loop: nodes[path] = {...} for every entry with a truthy path; a
\* dict keeps the position of the first insertion of a key
NodesStep(order, entry) ==
    IF PathOf(entry) = <<>> THEN order
    ELSE IF PathOf(entry) \in Range(order) THEN order
    ELSE Append(order, PathOf(entry))

\* "for entry in objects"; looking at the order of an iteration before the
\* next one starts keeps the evaluation iterative, as the loop is
RECURSIVE NodeOrderFrom(_, _)
NodeOrderFrom(order, objs) ==
    IF objs = <<>> \/ Len(order) < 0 THEN order
    ELSE NodeOrderFrom(NodesStep(order, Head(objs)), Tail(objs))

NodeOrder(objs) == NodeOrderFrom(<<>>, objs)

\* a nested path whose parent has no node is dropped
LinkStepDropOrphans(f, path) ==
    IF HasSlash(path)
    THEN IF RsplitHead(path) \in DOMAIN f.children
         THEN [f EXCEPT !.children[RsplitHead(path)] = Append(@, path)]
         ELSE f
    ELSE [f EXCEPT !.roots = Append(@, path)]

\* second loop: one iteration of "for path, node in nodes.items()"
LinkStep(f, path) ==
    IF HasSlash(path)
    THEN IF RsplitHead(path) \in DOMAIN f.children
         THEN [f EXCEPT !.children[RsplitHead(path)] = Append(@, path)]
         ELSE [f EXCEPT !.roots = Append(@, path)]
    ELSE [f EXCEPT !.roots = Append(@, path)]

\* looking at the accumulated value before the next iteration starts keeps
\* the evaluation iterative, as the loop is
RECURSIVE LinkAll(_, _)
LinkAll(f, order) ==
    IF order = <<>> \/ DOMAIN f = {} THEN f
    ELSE LinkAll(LinkStep(f, Head(order)), Tail(order))

build_tree(objs) ==
    LET order == NodeOrder(objs)
    IN  LinkAll([roots |-> <<>>, children |-> [p \in Range(order) |-> <<>>]], order)

-----------------------------------------------------------------------------
(* list.sort(key=hierarchyPath) and the two _sort_tree *)

\* insert x after every element that is not greater: a stable sort
RECURSIVE InsertSorted(_, _)
InsertSorted(s, x) ==
    IF s = <<>> THEN <<x>>
    ELSE IF StrLess(x, Head(s)) THEN <<x>> \o s
    ELSE <<Head(s)>> \o InsertSorted(Tail(s), x)

RECURSIVE SortByPathFrom(_, _)
SortByPathFrom(done, rest) ==
    IF rest = <<>> \/ Len(done) < 0 THEN done
    ELSE SortByPathFrom(InsertSorted(done, Head(rest)), Tail(rest))

\* a single bubble pass: each adjacent pair is swapped when out of order
RECURSIVE SortByPathOnePass(_)
SortByPathOnePass(list) ==
    IF Len(list) < 2 THEN list
    ELSE IF StrLess(list[2], list[1])
         THEN <<list[2]>> \o SortByPathOnePass(<<list[1]>> \o Tail(Tail(list)))
         ELSE <<list[1]>> \o SortByPathOnePass(Tail(list))

SortByPath(list) == SortByPathFrom(<<>>, list)

\* orchestrate_mapping._sort_tree: sort the list, then recurse into the
\* children of each of its nodes.  "ch" is the children of every node.
RECURSIVE sort_tree(_, _)
RECURSIVE SortEach(_, _)
sort_tree(ch, list) ==
    [list |-> SortByPath(list), ch |-> SortEach(ch, SortByPath(list))]
SortEach(ch, list) ==
    IF list = <<>> \/ DOMAIN ch = {} THEN ch
    ELSE LET sub == sort_tree(ch, ch[Head(list)])
         IN  SortEach([sub.ch EXCEPT ![Head(list)] = sub.list], Tail(list))

\* scene_outline._sort_tree: for each node of the list, sort its children
\* and recurse into them; the list itself is not sorted
RECURSIVE outline_sort_tree(_, _)
outline_sort_tree(ch, list) ==
    IF list = <<>> \/ DOMAIN ch = {} THEN ch
    ELSE LET sorted == SortByPath(ch[Head(list)])
             sub == outline_sort_tree([ch EXCEPT ![Head(list)] = sorted], sorted)
         IN  outline_sort_tree(sub, Tail(list))

SortForest(f) ==
    LET r == sort_tree(f.children, f.roots)
    IN  [roots |-> r.list, children |-> r.ch]

OutlineSortForest(f) ==
    [roots |-> f.roots, children |-> outline_sort_tree(f.children, f.roots)]

-----------------------------------------------------------------------------
(* _count_subtree *)

RECURSIVE count_subtree(_, _)
RECURSIVE CountEach(_, _)
\* the node and its direct children only
count_subtree_shallow(ch, node) == 1 + Len(ch[node])

count_subtree(ch, node) == 1 + CountEach(ch, ch[node])
CountEach(ch, list) ==
    IF list = <<>> THEN 0
    ELSE count_subtree(ch, Head(list)) + CountEach(ch, Tail(list))

RootSizes(f) == [i \in 1..Len(f.roots) |-> count_subtree(f.children, f.roots[i])]

-----------------------------------------------------------------------------
(* _build_hierarchy_rows *)

GidOf(entry) == entry.object.globalId

\* the "object" of the first entry with that path
PathToRefFirst(objs, path) ==
    objs[CHOOSE i \in 1..Len(objs) :
            /\ PathOf(objs[i]) = path
            /\ \A j \in 1..(i - 1) : PathOf(objs[j]) # path].object

\* path_to_ref[path]: the "object" of the last entry with that path
PathToRef(objs, path) ==
    objs[CHOOSE i \in 1..Len(objs) :
            /\ PathOf(objs[i]) = path
            /\ \A j \in (i + 1)..Len(objs) : PathOf(objs[j]) # path].object

HasRef(objs, path) == path # <<>> /\ \E i \in 1..Len(objs) : PathOf(objs[i]) = path

\* the dict appended to rows; the float 1.0 is the integer 1
Row(parent, child) ==
    [subject |-> parent, predicate |-> "part_of", object |-> child,
     confidence |-> 1, evidence |-> <<>>, subsystem |-> "Scene"]

\* key = f"{parent_id}|part_of|{child_id}"
Key(parent_id, child_id) == parent_id \o "|part_of|" \o child_id

\* one iteration of the second loop
RowsStep(objs, acc, entry) ==
    LET child == entry.object
        parent_path == RsplitHead(child.hierarchyPath)
    IN  IF child.hierarchyPath = <<>> \/ ~HasSlash(child.hierarchyPath) \/ child.globalId = ""
        THEN acc
        ELSE IF ~HasRef(objs, parent_path) THEN acc
        ELSE IF PathToRef(objs, parent_path).globalId = "" THEN acc
        ELSE IF Key(PathToRef(objs, parent_path).globalId, child.globalId) \in acc.seen THEN acc
        ELSE [seen |-> acc.seen \cup {Key(PathToRef(objs, parent_path).globalId, child.globalId)},
              rows |-> Append(acc.rows, Row(PathToRef(objs, parent_path), child))]

RECURSIVE RowsLoop(_, _, _)
RowsLoop(objs, acc, i) ==
    IF i > Len(objs) \/ DOMAIN acc = {} THEN acc
    ELSE RowsLoop(objs, RowsStep(objs, acc, objs[i]), i + 1)

build_hierarchy_rows(objs) == RowsLoop(objs, [seen |-> {}, rows |-> <<>>], 1).rows

-----------------------------------------------------------------------------
(* _suggest_diagram_counts *)

Max(a, b) == IF a >= b THEN a ELSE b
Min(a, b) == IF a <= b THEN a ELSE b

\* the chain with each threshold taken as exclusive
DiagramCountExclusive(total) ==
    IF total < 80 THEN 1
    ELSE IF total < 200 THEN 2
    ELSE IF total < 400 THEN 3
    ELSE 4

\* the if/elif chain that picks "count"
DiagramCount(total) ==
    IF total <= 80 THEN 1
    ELSE IF total <= 200 THEN 2
    ELSE IF total <= 400 THEN 3
    ELSE 4

\* the target without its lower clamp
TargetNodesNoFloor(total, count) ==
    Min(150, IF total # 0 THEN total \div Max(count, 1) ELSE 0)

\* target = max(30, min(150, (total // max(count, 1)) if total else 0))
TargetNodes(total, count) ==
    Max(30, Min(150, IF total # 0 THEN total \div Max(count, 1) ELSE 0))

suggest_diagram_counts(total) ==
    [diagramCount |-> DiagramCount(total),
     targetNodesPerDiagram |-> TargetNodes(total, DiagramCount(total))]

\* diagram_suggestion before it is assigned
NoSuggestion == [diagramCount |-> 0, targetNodesPerDiagram |-> 0]

-----------------------------------------------------------------------------
(* _build_diagrams *)

\* "Diagram " as code points
DiagramWord == <<68, 105, 97, 103, 114, 97, 109, 32>>

\* str(n) of a non-negative int
RECURSIVE DecimalStr(_)
DecimalStr(n) ==
    IF n < 10 THEN <<48 + n>>
    ELSE DecimalStr(n \div 10) \o <<48 + (n % 10)>>

\* f"Diagram {i + 1}", with n = i + 1
Title(n) == DiagramWord \o DecimalStr(n)

EmptyDiagram(n) ==
    [title |-> Title(n), rootPaths |-> <<>>, objectIds |-> <<>>, nodeCount |-> 0]

\* the list comprehension over range(diagram_count)
EmptyDiagrams(count) == [n \in 1..count |-> EmptyDiagram(n)]

\* only the roots whose path has a single segment
RootPathsOfTopLevel(f) == SelectSeq(f.roots, LAMBDA p : ~HasSlash(p))

\* root_paths: the truthy paths of the roots, in the order of "roots"
RootPathsOf(f) == SelectSeq(f.roots, LAMBDA p : p # <<>>)

\* smaller subtrees first
RootBeforeAscending(ch, a, b) ==
    \/ count_subtree(ch, a) < count_subtree(ch, b)
    \/ count_subtree(ch, a) = count_subtree(ch, b) /\ StrLess(a, b)

\* the order of the key (-root_sizes.get(p, 0), p)
RootBefore(ch, a, b) ==
    \/ count_subtree(ch, a) > count_subtree(ch, b)
    \/ count_subtree(ch, a) = count_subtree(ch, b) /\ StrLess(a, b)

RECURSIVE InsertRoot(_, _, _)
InsertRoot(ch, s, x) ==
    IF s = <<>> THEN <<x>>
    ELSE IF RootBefore(ch, x, Head(s)) THEN <<x>> \o s
    ELSE <<Head(s)>> \o InsertRoot(ch, Tail(s), x)

RECURSIVE SortRootsFrom(_, _, _)
SortRootsFrom(ch, done, rest) ==
    IF rest = <<>> \/ Len(done) < 0 THEN done
    ELSE SortRootsFrom(ch, InsertRoot(ch, done, Head(rest)), Tail(rest))

\* sorted(root_paths, key=lambda p: (-root_sizes.get(p, 0), p))
SortedRootPaths(f) == SortRootsFrom(f.children, <<>>, RootPathsOf(f))

\* the fullest diagram first
DiagramBeforeDescending(a, b) ==
    \/ a.nodeCount > b.nodeCount
    \/ a.nodeCount = b.nodeCount /\ StrLess(a.title, b.title)

\* the titles alone
DiagramBeforeByTitle(a, b) == StrLess(a.title, b.title)

\* the order of the key (d["nodeCount"], d["title"])
DiagramBefore(a, b) ==
    \/ a.nodeCount < b.nodeCount
    \/ a.nodeCount = b.nodeCount /\ StrLess(a.title, b.title)

RECURSIVE InsertDiagram(_, _)
InsertDiagram(s, d) ==
    IF s = <<>> THEN <<d>>
    ELSE IF DiagramBefore(d, Head(s)) THEN <<d>> \o s
    ELSE <<Head(s)>> \o InsertDiagram(Tail(s), d)

RECURSIVE SortDiagramsFrom(_, _)
SortDiagramsFrom(done, rest) ==
    IF rest = <<>> \/ Len(done) < 0 THEN done
    ELSE SortDiagramsFrom(InsertDiagram(done, Head(rest)), Tail(rest))

\* diagrams.sort(key=lambda d: (d["nodeCount"], d["title"]))
SortDiagrams(ds) == SortDiagramsFrom(<<>>, ds)

\* the running count replaced by the size of the root just taken
AssignStepOverwrite(ds, root_path, size) ==
    [SortDiagrams(ds) EXCEPT ![1] = [@ EXCEPT !.rootPaths = Append(@, root_path),
                                              !.nodeCount = size]]

\* one iteration of the greedy loop: sort in place, then diagrams[0] takes the root
AssignStep(ds, root_path, size) ==
    [SortDiagrams(ds) EXCEPT ![1] = [@ EXCEPT !.rootPaths = Append(@, root_path),
                                              !.nodeCount = @ + size]]

\* looking at the accumulated value before the next iteration starts keeps
\* the evaluation iterative, as the loop is
RECURSIVE AssignAll(_, _, _)
AssignAll(ch, ds, paths) ==
    IF paths = <<>> \/ Len(ds) < 0 THEN ds
    ELSE AssignAll(ch, AssignStep(ds, Head(paths), count_subtree(ch, Head(paths))),
                   Tail(paths))

\* path == root_path or path.startswith(root_path + "/"), for some root of the diagram
Owns(diagram, path) ==
    \E j \in 1..Len(diagram.rootPaths) :
        \/ path = diagram.rootPaths[j]
        \/ StartsWith(path, diagram.rootPaths[j] \o <<SLASH>>)

\* the tagging step without "if not gid: continue"
TagStepNoIdentityCheck(ds, entry) ==
    IF \E i \in 1..Len(ds) : Owns(ds[i], PathOf(entry))
    THEN LET first == CHOOSE i \in 1..Len(ds) :
                          /\ Owns(ds[i], PathOf(entry))
                          /\ \A k \in 1..(i - 1) : ~Owns(ds[k], PathOf(entry))
         IN [ds EXCEPT ![first].objectIds = Append(@, GidOf(entry))]
    ELSE ds

\* one iteration of the tagging loop: the first diagram of the list with a
\* matching root takes the globalId, and both inner loops break
TagStep(ds, entry) ==
    IF GidOf(entry) = "" THEN ds
    ELSE IF \E i \in 1..Len(ds) : Owns(ds[i], PathOf(entry))
    THEN LET first == CHOOSE i \in 1..Len(ds) :
                          /\ Owns(ds[i], PathOf(entry))
                          /\ \A k \in 1..(i - 1) : ~Owns(ds[k], PathOf(entry))
         IN [ds EXCEPT ![first].objectIds = Append(@, GidOf(entry))]
    ELSE ds

\* looking at the accumulated value before the next iteration starts keeps
\* the evaluation iterative, as the loop is
RECURSIVE TagAll(_, _)
TagAll(ds, objs) ==
    IF objs = <<>> \/ Len(ds) < 0 THEN ds
    ELSE TagAll(TagStep(ds, Head(objs)), Tail(objs))

\* the count clamped from below only
ClampDiagramCountNoRoots(diagram_count, n) == Max(1, diagram_count)

\* diagram_count = min(max(1, diagram_count), len(root_paths))
ClampDiagramCount(diagram_count, n) == Min(Max(1, diagram_count), n)

build_diagrams(objs, f, diagram_count) ==
    IF RootPathsOf(f) = <<>>
    THEN EmptyDiagrams(Max(1, diagram_count))
    ELSE TagAll(AssignAll(f.children,
                          EmptyDiagrams(ClampDiagramCount(diagram_count,
                                                          Len(RootPathsOf(f)))),
                          SortedRootPaths(f)),
                objs)

-----------------------------------------------------------------------------
(* _normalize_component_name, _build_grouping_lenses and the summary counts *)

DOT == 46

TopLimit == 25

\* "Untagged" as code points
Untagged == <<85, 110, 116, 97, 103, 103, 101, 100>>

\* dict.get finds the key
HasField(rec, field) == field \in DOMAIN rec

\* component_name.rsplit(".", 1)[-1], for a name that holds a "."
AfterLastDot(name) ==
    LET last == CHOOSE i \in 1..Len(name) :
                    /\ name[i] = DOT
                    /\ \A j \in (i + 1)..Len(name) : name[j] # DOT
    IN SubSeq(name, last + 1, Len(name))

normalize_component_name(name) ==
    IF name = <<>> THEN <<>>
    ELSE IF \E i \in 1..Len(name) : name[i] = DOT THEN AfterLastDot(name)
    ELSE name

\* tag = entry.get("tag") or "Untagged"
TagOf(entry) ==
    IF HasField(entry, "tag") /\ entry.tag # <<>> THEN entry.tag ELSE Untagged

\* layer_key = str(layer) if layer is not None else "0"
LayerKey(entry) ==
    IF HasField(entry, "layer") THEN DecimalStr(entry.layer) ELSE <<48>>

\* the prefabPath when it is truthy
PrefabKeys(entry) ==
    IF HasField(entry.object, "prefabPath") /\ entry.object.prefabPath # <<>>
    THEN {entry.object.prefabPath}
    ELSE {}

\* the set "normalized", without the empty name that the loop skips
ComponentKeys(entry) ==
    IF HasField(entry, "componentTypeNames")
    THEN {normalize_component_name(entry.componentTypeNames[k]) :
             k \in {n \in 1..Len(entry.componentTypeNames) :
                       entry.componentTypeNames[n] # <<>>}} \ {<<>>}
    ELSE {}

\* depth = (obj.get("hierarchyPath") or "").count("/")
DepthKeys(entry) ==
    {Cardinality({i \in 1..Len(PathOf(entry)) : PathOf(entry)[i] = SLASH})}

\* counts[key] = 1
BumpOnce(table, key) ==
    IF key \in DOMAIN table THEN table ELSE table @@ (key :> 1)

\* counts[key] = counts.get(key, 0) + 1
Bump(table, key) ==
    IF key \in DOMAIN table THEN [table EXCEPT ![key] = @ + 1]
    ELSE table @@ (key :> 1)

RECURSIVE BumpAll(_, _)
BumpAll(table, keys) ==
    IF keys = {} THEN table
    ELSE LET key == CHOOSE k \in keys : TRUE
         IN BumpAll(Bump(table, key), keys \ {key})

\* the five count tables before the first record
NoCounts == [tags |-> <<>>, layers |-> <<>>, prefabs |-> <<>>,
             components |-> <<>>, depths |-> <<>>]

\* one iteration of "for entry in objects"
CountStep(acc, entry) ==
    [tags |-> Bump(acc.tags, TagOf(entry)),
     layers |-> Bump(acc.layers, LayerKey(entry)),
     prefabs |-> BumpAll(acc.prefabs, PrefabKeys(entry)),
     components |-> BumpAll(acc.components, ComponentKeys(entry)),
     depths |-> BumpAll(acc.depths, DepthKeys(entry))]

\* "for entry in objects"; looking at the tables of an iteration before the
\* next one starts keeps the evaluation iterative, as the loop is
RECURSIVE CountAll(_, _)
CountAll(acc, objs) ==
    IF objs = <<>> \/ DOMAIN acc = {} THEN acc
    ELSE CountAll(CountStep(acc, Head(objs)), Tail(objs))

\* the keys in ascending order, whatever their counts
SortedItemsByKey(table) ==
    [k \in 1..Cardinality(DOMAIN table) |->
        CHOOSE x \in DOMAIN table :
            Cardinality({y \in DOMAIN table : StrLess(y, x)}) = k - 1]

\* sorted(source.items(), key=lambda kv: (-kv[1], kv[0])): the keys of a dict
\* are distinct, so the k-th item is the one with k - 1 items before it
SortedItems(table) ==
    [k \in 1..Cardinality(DOMAIN table) |->
        CHOOSE x \in DOMAIN table :
            Cardinality({y \in DOMAIN table :
                            \/ table[y] > table[x]
                            \/ table[y] = table[x] /\ StrLess(y, x)}) = k - 1]

\* [{"key": k, "count": v} for k, v in items[:limit]]
top_counts(table) ==
    [k \in 1..Min(TopLimit, Cardinality(DOMAIN table)) |->
        [key |-> SortedItems(table)[k], count |-> table[SortedItems(table)[k]]]]

\* [{"depth": k, "count": v} for k, v in sorted(depth_counts.items())]
DepthHistogram(table) ==
    [k \in 1..Cardinality(DOMAIN table) |->
        LET depth == CHOOSE x \in DOMAIN table :
                         Cardinality({y \in DOMAIN table : y < x}) = k - 1
        IN [depth |-> depth, count |-> table[depth]]]

\* the order of sorted(root_groups, key=(-subtreeSize, hierarchyPath or ""))
LensRootOrder(f) == SortRootsFrom(f.children, <<>>, f.roots)

\* the entries of "roots": the node's object is that of the last record with
\* the path; the "name" of the object is not modelled
RootGroups(objs, f) ==
    [k \in 1..Len(f.roots) |->
        [globalId |-> PathToRef(objs, LensRootOrder(f)[k]).globalId,
         hierarchyPath |-> LensRootOrder(f)[k],
         subtreeSize |-> count_subtree(f.children, LensRootOrder(f)[k])]]

build_grouping_lenses(objs, f) ==
    [roots |-> RootGroups(objs, f),
     tags |-> top_counts(CountAll(NoCounts, objs).tags),
     layers |-> top_counts(CountAll(NoCounts, objs).layers),
     prefabs |-> top_counts(CountAll(NoCounts, objs).prefabs),
     components |-> top_counts(CountAll(NoCounts, objs).components),
     depthHistogram |-> DepthHistogram(CountAll(NoCounts, objs).depths)]

\* sum(1 for entry in objects if entry.get(field) is True)
ActiveCount(objs, field) ==
    Cardinality({i \in 1..Len(objs) : HasField(objs[i], field) /\ objs[i][field] = TRUE})

\* grouping_lenses and summary before they are assigned
NoLenses == [none |-> TRUE]
NoSummary == [none |-> TRUE]

-----------------------------------------------------------------------------
(* Responses of the Unity side *)

\* next_offset as the page reports it: absent/None, an int, or a str
NoOffset == [t |-> "none", n |-> 0, s |-> <<>>]
IntOffset(n) == [t |-> "int", n |-> n, s |-> <<>>]
StrOffset(s) == [t |-> "str", n |-> 0, s |-> s]

\* "1", "x", "": a str that int() parses and two that it does not
NextOffsets == {NoOffset, IntOffset(0), IntOffset(1), IntOffset(2),
                StrOffset(<<49>>), StrOffset(<<120>>), StrOffset(<<>>)}

IsDigit(c) == c \in 48..57

RECURSIVE DigitsValue(_)
DigitsValue(s) ==
    IF s = <<>> THEN 0 ELSE 10 * DigitsValue(SubSeq(s, 1, Len(s) - 1)) + (s[Len(s)] - 48)

\* int(next_offset): the value, or ok = FALSE where int() raises
PyInt(v) ==
    IF v.t = "int" THEN [ok |-> TRUE, value |-> v.n]
    ELSE IF v.t = "str" /\ v.s # <<>> /\ \A i \in 1..Len(v.s) : IsDigit(v.s[i])
         THEN [ok |-> TRUE, value |-> DigitsValue(v.s)]
         ELSE [ok |-> FALSE, value |-> 0]

-----------------------------------------------------------------------------
(* cli/utils/config.py: CLIConfig.from_env, get_config, set_config *)

MaxGets == 3        \* calls of get_config

\* _config = None
NoConfig == [none |-> TRUE]

\* os.environ: the variables from_env reads, a variable that is not set
\* being no field of the record.  "90", "5" and "x" are the values tried.
Environs ==
    { [PATH |-> "/bin"],
      [PATH |-> "/bin", UNITY_MCP_HOST |-> "10.0.0.1"],
      [PATH |-> "/bin", UNITY_MCP_HTTP_PORT |-> <<57, 48>>],
      [PATH |-> "/bin", UNITY_MCP_HTTP_PORT |-> <<120>>],
      [PATH |-> "/bin", UNITY_MCP_HTTP_PORT |-> <<57, 48>>, UNITY_MCP_TIMEOUT |-> <<53>>],
      [PATH |-> "/bin", UNITY_MCP_TIMEOUT |-> <<120>>] }

DefaultEnviron == [PATH |-> "/bin"]

\* an instance of CLIConfig: "id" is its identity, the other fields are its
\* attributes (format and unity_instance are read the way host is)
CLIConfig(id, host, port, timeout) ==
    [id |-> id, host |-> host, port |-> port, timeout |-> timeout]

\* CLIConfig.from_env(): ok = FALSE where int() raises ValueError
from_env(e, id) ==
    LET host == IF HasField(e, "UNITY_MCP_HOST") THEN e.UNITY_MCP_HOST ELSE "127.0.0.1"
        port == PyInt(StrOffset(IF HasField(e, "UNITY_MCP_HTTP_PORT")
                                THEN e.UNITY_MCP_HTTP_PORT ELSE <<56, 48, 56, 48>>))
        timeout == PyInt(StrOffset(IF HasField(e, "UNITY_MCP_TIMEOUT")
                                   THEN e.UNITY_MCP_TIMEOUT ELSE <<51, 48>>))
    IN [ok |-> port.ok /\ timeout.ok,
        value |-> CLIConfig(id, host, port.value, timeout.value)]

\* the instances callers hand to set_config: two of them are equal field by
\* field and still two instances
CallerConfigs ==
    {CLIConfig(1, "127.0.0.1", 8080, 30), CLIConfig(2, "127.0.0.1", 8080, 30),
     CLIConfig(3, "localhost", 9090, 60)}

\* identities of the instances from_env makes
EnvId(n) == 10 + n

NoCall == [call |-> "none", value |-> NoConfig, raised |-> FALSE]

\* the module as imported: _config is None
CliStart ==
    /\ config = NoConfig
    /\ created = 0
    /\ returned = NoCall
    /\ last_set = NoConfig
    /\ gets = 0

\* no second request
NoFrame == [none |-> TRUE]

\* an element of "objects" that is not a dict
Malformed == [notADict |-> "str"]

IsDictEntry(e) == "object" \in DOMAIN e

WellFormed(objs) == \A i \in 1..Len(objs) : IsDictEntry(objs[i])

\* data.get("objects") or [] of the pages
PageBatches ==
    { <<>>,
      <<Entry(<<65>>, "g1")>>,
      <<Entry(<<65, SLASH, 65>>, "g2")>>,
      <<Malformed>> }

\* index_response.get("data") or {}: a response without data reads as one
\* with no objects and no next_offset
NoData == [objects |-> <<>>, next_offset |-> NoOffset, name |-> "", projectRoot |-> ""]

PageData(batch, next_offset) == [NoData EXCEPT !.objects = batch, !.next_offset = next_offset]

Response(isDict, success, message, data) ==
    [isDict |-> isDict, success |-> success, message |-> message, data |-> data]

\* a response that is not a dict, such as a response object of the transport
NonDictResponse == Response(FALSE, FALSE, "timeout", NoData)

\* str(response) of a response that is not a dict
PyStr(r) == IF r.message = "timeout" THEN "success=False error='timeout'" ELSE "repr"

FailureResponse == Response(TRUE, FALSE, "Unity error", NoData)

PageResponses ==
    {NonDictResponse, FailureResponse}
    \cup {Response(TRUE, TRUE, "ok", PageData(b, o)) : b \in PageBatches, o \in NextOffsets}

CommitResponses ==
    {NonDictResponse, FailureResponse, Response(TRUE, TRUE, "committed", NoData)}

NoResponse == [none |-> TRUE]
NoResult == [none |-> TRUE]

\* isinstance(response, dict) and response.get("success")
Succeeded(r) == r.isDict /\ r.success

\* {"success": False, "message": str(response)}
WrapNonDict(r) == Response(TRUE, FALSE, PyStr(r), NoData)

-----------------------------------------------------------------------------
(* Commands *)

Command(command, action, off, table) ==
    [command |-> command, action |-> action, offset |-> off, rows |-> table]

GetActive == Command("manage_scene", "get_active", 0, <<>>)
FetchPage(off) == Command("manage_mapping", "get_scene_object_index", off, <<>>)
CommitTable(table) == Command("manage_mapping", "commit_mapping_table", 0, table)
GetProjectInfo == Command("get_project_info", "", 0, <<>>)

IsFetch(c) == c.action = "get_scene_object_index"
IsCommit(c) == c.action = "commit_mapping_table"

Fetches == SelectSeq(sent, IsFetch)
Commits == SelectSeq(sent, IsCommit)

-----------------------------------------------------------------------------
(* The pagination loop of orchestrate_mapping and get_scene_outline *)

\* a failed page is handled as the last page
PageOutcomeIgnoreFailure(r) ==
    IF ~Succeeded(r) THEN "end"
    ELSE IF r.data.next_offset.t = "none" THEN "end"
    ELSE IF ~PyInt(r.data.next_offset).ok THEN "end"
    ELSE "next"

\* int(next_offset) without the try/except around it
PageOutcomeNoTry(r) ==
    IF ~Succeeded(r) THEN "fail"
    ELSE IF r.data.next_offset.t = "none" THEN "end"
    ELSE IF ~PyInt(r.data.next_offset).ok THEN "raise"
    ELSE "next"

\* a page without next_offset is taken for a page with cursor 0
PageOutcomeLoopOnAbsent(r) ==
    IF ~Succeeded(r) THEN "fail"
    ELSE IF r.data.next_offset.t = "none" THEN "next"
    ELSE IF ~PyInt(r.data.next_offset).ok THEN "end"
    ELSE "next"

\* what one iteration of the while loop does with the page it received:
\* return the failure ("fail"), leave the loop ("end") or go round again
\* ("next"); int() raising is caught, so no page makes it "raise"
PageOutcome(r) ==
    IF ~Succeeded(r) THEN "fail"
    ELSE IF r.data.next_offset.t = "none" THEN "end"
    ELSE IF ~PyInt(r.data.next_offset).ok THEN "end"
    ELSE "next"

\* offset += 1 in place of the reported cursor
AdvanceOffsetByOne(off, next_offset) == off + 1

\* offset = int(next_offset)
AdvanceOffset(off, next_offset) == PyInt(next_offset).value

\* objects = batch
ExtendObjectsReplace(objs, batch) == batch

\* objects.extend(batch)
ExtendObjects(objs, batch) == objs \o batch

\* the commit response rebuilt the way manage_mapping rebuilds a response
MappingCommitNormalized(r) ==
    IF Succeeded(r) THEN r ELSE IF r.isDict THEN r ELSE WrapNonDict(r)

\* "mappingCommit": commit_response
MappingCommit(r) == r

\* the value orchestrate_mapping returns for a page that did not succeed
FailedPageResult(r) == IF r.isDict THEN r ELSE WrapNonDict(r)

\* the MCPResponse get_scene_outline returns for a page that did not succeed
OutlineFailure(r) ==
    [success |-> FALSE,
     error |-> IF r.isDict THEN r.message ELSE "Failed to load scene outline."]

\* the summary counts; "inactive" is total_count - active_in_hierarchy
Summary(objs) ==
    [totalObjects |-> Len(objs),
     activeInHierarchy |-> ActiveCount(objs, "activeInHierarchy"),
     activeSelf |-> ActiveCount(objs, "activeSelf"),
     inactive |-> Len(objs) - ActiveCount(objs, "activeInHierarchy")]

OrchestrateResult(objs, scene, commit, path) ==
    [success |-> TRUE,
     message |-> "Orchestration complete.",
     data |-> [scene |-> scene,
               summary |-> Summary(objs),
               diagramGuidance |-> [suggested |-> suggest_diagram_counts(Len(objs))],
               diagrams |-> build_diagrams(objs, SortForest(build_tree(objs)),
                                           suggest_diagram_counts(Len(objs)).diagramCount),
               mappingCommit |-> MappingCommit(commit),
               diagramJsonPath |-> path]]

OutlineResult(objs, scene, f) ==
    [success |-> TRUE,
     data |-> [scene |-> scene,
               summary |-> Summary(objs),
               hierarchy |-> f,
               objectsFlat |-> objs,
               groupingLenses |-> build_grouping_lenses(objs, f),
               diagramGuidance |-> [suggested |-> suggest_diagram_counts(Len(objs))]]]

Tools == {"orchestrate_mapping", "get_scene_outline", "manage_mapping"}

Init ==
    /\ tool \in Tools
    /\ pc = "start"
    /\ offset = 0
    /\ objects = <<>>
    /\ forest = EmptyForest
    /\ sent = <<>>
    /\ pages = <<>>
    /\ active_scene = ""
    /\ commit_response = NoResponse
    /\ sidecar = FALSE
    /\ result = NoResult
    /\ total_count = 0
    /\ diagram_suggestion = NoSuggestion
    /\ diagrams = <<>>
    /\ rows = <<>>
    /\ summary = NoSummary
    /\ grouping_lenses = NoLenses
    /\ suspended = NoFrame
    /\ CliStart
    /\ environ = DefaultEnviron

\* orchestrate_mapping, manage_mapping: up to "await preflight(...)"
CallTool ==
    /\ pc = "start"
    /\ tool \in {"orchestrate_mapping", "manage_mapping"}
    /\ pc' = "awaitPreflight"
    /\ UNCHANGED <<tool, offset, objects, forest, sent, pages, active_scene,
                   commit_response, sidecar, result>>
    /\ UNCHANGED <<planVars, lensVars, pairVars, cliVars>>

\* get_scene_outline: up to the await of the active scene
CallOutline ==
    /\ pc = "start"
    /\ tool = "get_scene_outline"
    /\ sent' = Append(sent, GetActive)
    /\ pc' = "awaitActive"
    /\ UNCHANGED <<tool, offset, objects, forest, pages, active_scene,
                   commit_response, sidecar, result>>
    /\ UNCHANGED <<planVars, lensVars, pairVars, cliVars>>

GateDump == Response(TRUE, FALSE, "Unity is compiling", NoData)

\* orchestrate_mapping: preflight returned; a gate is returned as it is,
\* otherwise the active scene is asked for
PreflightReturns ==
    /\ pc = "awaitPreflight"
    /\ tool = "orchestrate_mapping"
    /\ \E gate \in BOOLEAN :
         IF gate
         THEN /\ result' = GateDump
              /\ pc' = "done"
              /\ UNCHANGED sent
         ELSE /\ sent' = Append(sent, GetActive)
              /\ pc' = "awaitActive"
              /\ UNCHANGED result
    /\ UNCHANGED <<tool, offset, objects, forest, pages, active_scene,
                   commit_response, sidecar>>
    /\ UNCHANGED <<planVars, lensVars, pairVars, cliVars>>

ActiveResponses ==
    {NonDictResponse, FailureResponse,
     Response(TRUE, TRUE, "ok", [NoData EXCEPT !.name = "Main"])}

\* the active scene arrived: lines 279-302 (165-183 of scene_outline.py),
\* up to the await of the first page
ActiveReturns ==
    /\ pc = "awaitActive"
    /\ \E r \in ActiveResponses :
         active_scene' = IF Succeeded(r) THEN r.data.name ELSE ""
    /\ objects' = <<>>
    /\ offset' = 0
    /\ sent' = Append(sent, FetchPage(0))
    /\ pc' = "awaitPage"
    /\ UNCHANGED <<tool, forest, pages, commit_response, sidecar, result>>
    /\ UNCHANGED <<planVars, lensVars, pairVars, cliVars>>

\* after the loop: the tree, the rows, and the commit (or the outline's
\* payload); a record that is not a dict raises in _build_tree
AfterIngestion(objs) ==
    IF ~WellFormed(objs)
    THEN /\ pc' = "raised"
         /\ UNCHANGED <<forest, sent, result>>
         /\ UNCHANGED <<planVars, lensVars, pairVars, cliVars>>
    ELSE /\ forest' = IF tool = "orchestrate_mapping"
                      THEN SortForest(build_tree(objs))
                      ELSE OutlineSortForest(build_tree(objs))
         /\ total_count' = Len(objs)
         /\ summary' = Summary(objs)
         /\ grouping_lenses' =
                build_grouping_lenses(objs, IF tool = "orchestrate_mapping"
                                            THEN SortForest(build_tree(objs))
                                            ELSE OutlineSortForest(build_tree(objs)))
         /\ diagram_suggestion' = suggest_diagram_counts(Len(objs))
         /\ UNCHANGED <<pairVars, cliVars>>
         /\ IF tool = "orchestrate_mapping"
            THEN /\ diagrams' = build_diagrams(objs, SortForest(build_tree(objs)),
                                    suggest_diagram_counts(Len(objs)).diagramCount)
                 /\ rows' = build_hierarchy_rows(objs)
                 /\ sent' = Append(sent, CommitTable(build_hierarchy_rows(objs)))
                 /\ pc' = "awaitCommit"
                 /\ UNCHANGED result
            ELSE /\ result' = OutlineResult(objs, active_scene,
                                            OutlineSortForest(build_tree(objs)))
                 /\ pc' = "done"
                 /\ UNCHANGED <<sent, diagrams, rows>>

\* a page arrived: one iteration of the while loop from the await on, and
\* whatever follows it up to the next await
PageReturns ==
    /\ pc = "awaitPage"
    /\ \E r \in PageResponses :
         /\ PageOutcome(r) = "next" => Len(pages) + 1 < MaxFetches
         /\ pages' = Append(pages, r)
         /\ CASE PageOutcome(r) = "fail" ->
                   /\ result' = IF tool = "orchestrate_mapping"
                                THEN FailedPageResult(r)
                                ELSE OutlineFailure(r)
                   /\ pc' = "done"
                   /\ UNCHANGED <<offset, objects, forest, sent>>
                   /\ UNCHANGED <<planVars, lensVars, pairVars, cliVars>>
              [] PageOutcome(r) = "raise" ->
                   /\ objects' = ExtendObjects(objects, r.data.objects)
                   /\ pc' = "raised"
                   /\ UNCHANGED <<offset, forest, sent, result>>
                   /\ UNCHANGED <<planVars, lensVars, pairVars, cliVars>>
              [] PageOutcome(r) = "next" ->
                   /\ objects' = ExtendObjects(objects, r.data.objects)
                   /\ offset' = AdvanceOffset(offset, r.data.next_offset)
                   /\ sent' = Append(sent, FetchPage(AdvanceOffset(offset, r.data.next_offset)))
                   /\ UNCHANGED <<pc, forest, result>>
                   /\ UNCHANGED <<planVars, lensVars, pairVars, cliVars>>
              [] PageOutcome(r) = "end" ->
                   /\ objects' = ExtendObjects(objects, r.data.objects)
                   /\ AfterIngestion(ExtendObjects(objects, r.data.objects))
                   /\ UNCHANGED offset
    /\ UNCHANGED <<tool, active_scene, commit_response, sidecar>>

\* the commit arrived: lines 352-359, or the return when no sidecar is asked
CommitReturns ==
    /\ pc = "awaitCommit"
    /\ \E r \in CommitResponses, write_diagrams_json \in BOOLEAN :
         /\ commit_response' = r
         /\ IF write_diagrams_json
            THEN /\ sent' = Append(sent, GetProjectInfo)
                 /\ pc' = "awaitInfo"
                 /\ UNCHANGED result
            ELSE /\ result' = OrchestrateResult(objects, active_scene, r, "")
                 /\ pc' = "done"
                 /\ UNCHANGED sent
    /\ UNCHANGED <<tool, offset, objects, forest, pages, active_scene, sidecar>>
    /\ UNCHANGED <<planVars, lensVars, pairVars, cliVars>>

InfoResponses ==
    {NonDictResponse, FailureResponse,
     Response(TRUE, TRUE, "ok", NoData),
     Response(TRUE, TRUE, "ok", [NoData EXCEPT !.projectRoot = "/project"])}

\* the project info arrived: _write_diagrams_json and the return.  The file
\* is written when the project root is known and asset_path starts with
\* "Assets/"; makedirs and open may raise.
InfoReturns ==
    /\ pc = "awaitInfo"
    /\ \E r \in InfoResponses, assetUnderAssets \in BOOLEAN, ioError \in BOOLEAN :
         IF Succeeded(r) /\ r.data.projectRoot # "" /\ assetUnderAssets
         THEN IF ioError
              THEN /\ pc' = "raised"
                   /\ UNCHANGED <<sidecar, result>>
              ELSE /\ sidecar' = TRUE
                   /\ result' = OrchestrateResult(objects, active_scene, commit_response,
                                                  "StructureMappingTable.diagrams.json")
                   /\ pc' = "done"
         ELSE /\ ~ioError
              /\ result' = OrchestrateResult(objects, active_scene, commit_response, "")
              /\ pc' = "done"
              /\ UNCHANGED sidecar
    /\ UNCHANGED <<tool, offset, objects, forest, sent, pages, active_scene, commit_response>>
    /\ UNCHANGED <<planVars, lensVars, pairVars, cliVars>>

AwaitingUnity == pc \in {"awaitActive", "awaitPage", "awaitCommit", "awaitInfo"}

\* send_with_unity_instance raises: neither orchestrate_mapping nor
\* get_scene_outline has a handler, the exception leaves the coroutine
SendRaises ==
    /\ AwaitingUnity
    /\ tool \in {"orchestrate_mapping", "get_scene_outline"}
    /\ pc' = "raised"
    /\ UNCHANGED <<tool, offset, objects, forest, sent, pages, active_scene,
                   commit_response, sidecar, result>>
    /\ UNCHANGED <<planVars, lensVars, pairVars, cliVars>>

\* the caller cancels the task at an await: CancelledError leaves the
\* coroutine ("except Exception" does not catch it)
Cancel ==
    /\ AwaitingUnity \/ pc \in {"awaitPreflight", "awaitSend"}
    /\ pc' = "cancelled"
    /\ UNCHANGED <<tool, offset, objects, forest, sent, pages, active_scene,
                   commit_response, sidecar, result>>
    /\ UNCHANGED <<planVars, lensVars, pairVars, cliVars>>

-----------------------------------------------------------------------------
(* manage_mapping *)

MappingActions == {"get_scene_object_index", "commit_mapping_table"}

\* preflight returned: a gate is returned as it is; otherwise the try block
\* builds the parameters (float(min_confidence) may raise, which the
\* handler turns into a failure) and sends the command
ManagePreflightReturns ==
    /\ pc = "awaitPreflight"
    /\ tool = "manage_mapping"
    /\ \E gate \in BOOLEAN, badConfidence \in BOOLEAN, action \in MappingActions :
         IF gate
         THEN /\ ~badConfidence
              /\ result' = GateDump
              /\ pc' = "done"
              /\ UNCHANGED sent
         ELSE IF badConfidence
         THEN /\ result' = Response(TRUE, FALSE, "Python error managing mapping: ValueError", NoData)
              /\ pc' = "done"
              /\ UNCHANGED sent
         ELSE /\ sent' = Append(sent, Command("manage_mapping", action, 0, <<>>))
              /\ pc' = "awaitSend"
              /\ UNCHANGED result
    /\ UNCHANGED <<tool, offset, objects, forest, pages, active_scene,
                   commit_response, sidecar>>
    /\ UNCHANGED <<planVars, lensVars, pairVars, cliVars>>

\* lines 101-107
ManageSendReturns ==
    /\ pc = "awaitSend"
    /\ \E r \in CommitResponses :
         result' = IF Succeeded(r) THEN Response(TRUE, TRUE, r.message, r.data)
                   ELSE IF r.isDict THEN r ELSE WrapNonDict(r)
    /\ pc' = "done"
    /\ UNCHANGED <<tool, offset, objects, forest, sent, pages, active_scene,
                   commit_response, sidecar>>
    /\ UNCHANGED <<planVars, lensVars, pairVars, cliVars>>

\* lines 108-109: the call raised inside the try block
ManageSendRaises ==
    /\ pc = "awaitSend"
    /\ result' = Response(TRUE, FALSE, "Python error managing mapping: ConnectionError", NoData)
    /\ pc' = "done"
    /\ UNCHANGED <<tool, offset, objects, forest, sent, pages, active_scene,
                   commit_response, sidecar>>
    /\ UNCHANGED <<planVars, lensVars, pairVars, cliVars>>

Next ==
    \/ CallTool
    \/ CallOutline
    \/ PreflightReturns
    \/ ActiveReturns
    \/ PageReturns
    \/ CommitReturns
    \/ InfoReturns
    \/ SendRaises
    \/ Cancel
    \/ ManagePreflightReturns
    \/ ManageSendReturns
    \/ ManageSendRaises

Spec == Init /\ [][Next]_vars

\* the awaited page fetch completes: the transport answers every command it
\* was sent, so a request waiting for a page is resumed
FairSpec == Init /\ [][Next]_vars /\ WF_vars(PageReturns)

-----------------------------------------------------------------------------
(* Properties of one request *)

Orchestrating == tool = "orchestrate_mapping"

\* the objects of every page received, in the order of the fetches
AllPageObjects == Flatten([i \in 1..Len(pages) |-> pages[i].data.objects])

\* C1: the first fetch asks for offset 0, every later fetch asks for the
\* integer value of the next_offset of the page before it, at most one
\* fetch is outstanding, no fetch follows a page without next_offset, and
\* the accumulated objects are the pages' objects in fetch order.
C1_SequentialPagination ==
    /\ Len(Fetches) \in {Len(pages), Len(pages) + 1}
    /\ Len(Fetches) >= 1 => Fetches[1].offset = 0
    /\ \A i \in 2..Len(Fetches) :
          /\ Succeeded(pages[i - 1])
          /\ pages[i - 1].data.next_offset.t # "none"
          /\ PyInt(pages[i - 1].data.next_offset).ok
          /\ Fetches[i].offset = PyInt(pages[i - 1].data.next_offset).value
    /\ \A i \in 1..Len(pages) :
          pages[i].data.next_offset.t = "none" => Len(Fetches) <= i
    /\ objects = AllPageObjects

\* a second fetch at the offset the first page reported, two records kept
C1_Witness ==
    /\ Len(pages) = 2
    /\ Fetches[2].offset = 2
    /\ Len(objects) = 2

SomePageFailed == \E i \in 1..Len(pages) : ~Succeeded(pages[i])

LastPage == pages[Len(pages)]

StopsAtFailedPage ==
    /\ ~Succeeded(LastPage)
    /\ \A i \in 1..(Len(pages) - 1) : Succeeded(pages[i])
    /\ Len(Fetches) = Len(pages)
    /\ Commits = <<>>
    /\ ~sidecar
    /\ pc = "done"

\* C2 as stated: after a page that did not succeed orchestrate_mapping
\* fetches no further page, sends no commit, writes no sidecar and returns
\* that page's response itself.
C2_FailedPageReturnedItself ==
    (Orchestrating /\ SomePageFailed) =>
        /\ StopsAtFailedPage
        /\ result = LastPage

\* C2 amended: ... and returns that page's response itself when it is a
\* dict, and {success: False, message: str(response)} when it is not;
\* never a success result.
C2_FailedPageStopsRequest ==
    (Orchestrating /\ SomePageFailed) =>
        /\ StopsAtFailedPage
        /\ result = IF LastPage.isDict THEN LastPage
                    ELSE Response(TRUE, FALSE, PyStr(LastPage), NoData)
        /\ ~result.success

\* the second page fails after the first one brought a record
C2_Witness ==
    /\ Orchestrating
    /\ Len(pages) = 2
    /\ ~Succeeded(pages[2])
    /\ pages[1].data.objects # <<>>
    /\ pc = "done"

UnparsableEnd(r) ==
    /\ Succeeded(r)
    /\ r.data.next_offset.t = "str"
    /\ \/ r.data.next_offset.s = <<>>
       \/ \E i \in 1..Len(r.data.next_offset.s) : ~IsDigit(r.data.next_offset.s[i])

\* C3: a successful page whose next_offset is no integer is the last page
\* fetched; its records and the earlier ones are kept, and with records
\* that are dicts the request goes on to the tree, the commit and, when it
\* returns, a success result.
C3_UnparsableOffsetEndsPagination ==
    (Orchestrating /\ \E i \in 1..Len(pages) : UnparsableEnd(pages[i])) =>
        /\ UnparsableEnd(LastPage)
        /\ Len(Fetches) = Len(pages)
        /\ objects = AllPageObjects
        /\ WellFormed(objects) =>
              /\ pc \in {"awaitCommit", "awaitInfo", "done", "raised", "cancelled"}
              /\ forest = SortForest(build_tree(objects))
              /\ Len(Commits) = 1
              /\ pc = "done" =>
                    /\ result.success
                    /\ result.data.summary.totalObjects = Len(objects)

\* the request returned success after a second page with next_offset "x"
C3_Witness ==
    /\ Orchestrating
    /\ pc = "done"
    /\ Len(pages) = 2
    /\ UnparsableEnd(pages[2])
    /\ Len(objects) = 2
    /\ result.success

EndsPagination(r) ==
    /\ Succeeded(r)
    /\ r.data.next_offset.t = "none" \/ UnparsableEnd(r)

\* C4: orchestrate_mapping sends commit_mapping_table at most once, only
\* after every fetch has returned a successful page and the last of them
\* ended pagination, with the rows of all the records fetched; a request
\* cancelled or failed during ingestion has sent none.
C4_CommitOnceAfterIngestion ==
    Orchestrating =>
        /\ Len(Commits) <= 1
        /\ Len(Commits) = 1 =>
              /\ Len(pages) >= 1
              /\ Len(Fetches) = Len(pages)
              /\ \A i \in 1..Len(pages) : Succeeded(pages[i])
              /\ EndsPagination(LastPage)
              /\ \A i, j \in 1..Len(sent) : (IsCommit(sent[i]) /\ IsFetch(sent[j])) => j < i
              /\ Commits[1].rows = build_hierarchy_rows(AllPageObjects)
        /\ (pc = "cancelled" /\ Len(pages) < Len(Fetches)) => Commits = <<>>
        /\ SomePageFailed => Commits = <<>>

\* the commit carries the part_of row that joins records of two pages
C4_Witness ==
    /\ Orchestrating
    /\ Len(pages) = 2
    /\ Len(Commits) = 1
    /\ Commits[1].rows # <<>>

\* C5: an exception raised while orchestrate_mapping or manage_mapping runs
\* never leaves the tool; it is returned as a failure response.
C5_NoExceptionEscapes ==
    tool \in {"orchestrate_mapping", "manage_mapping"} => pc # "raised"

\* C6: once ingestion has completed, the result's mappingCommit is the
\* response the commit returned, whatever it reports, and that commit was
\* sent once.
C6_CommitResponsePassedThrough ==
    Orchestrating =>
        /\ commit_response # NoResponse =>
              /\ commit_response \in CommitResponses
              /\ Len(Commits) = 1
        /\ (pc = "done" /\ Len(Commits) >= 1) =>
              /\ result.success
              /\ result.data.mappingCommit = commit_response

\* a commit that failed with a response that is no dict is in the result
C6_Witness ==
    /\ Orchestrating
    /\ pc = "done"
    /\ Len(Commits) = 1
    /\ ~commit_response.isDict
    /\ result.data.mappingCommit = commit_response

-----------------------------------------------------------------------------
(* The helpers applied to every record list within the bounds *)

RECURSIVE SeqsUpTo(_, _)
SeqsUpTo(S, n) ==
    IF n = 0 THEN {<<>>}
    ELSE SeqsUpTo(S, n - 1)
         \cup {Append(s, x) : s \in {t \in SeqsUpTo(S, n - 1) : Len(t) = n - 1}, x \in S}

InitTree ==
    /\ tool = "none"
    /\ pc = "input"
    /\ objects \in SeqsUpTo({Entry(p, "g1") : p \in Paths}, MaxObjects)
    /\ forest = EmptyForest
    /\ offset = 0
    /\ sent = <<>>
    /\ pages = <<>>
    /\ active_scene = ""
    /\ commit_response = NoResponse
    /\ sidecar = FALSE
    /\ result = NoResult
    /\ total_count = 0
    /\ diagram_suggestion = NoSuggestion
    /\ diagrams = <<>>
    /\ rows = <<>>
    /\ summary = NoSummary
    /\ grouping_lenses = NoLenses
    /\ suspended = NoFrame
    /\ CliStart
    /\ environ = DefaultEnviron

\* roots, _nodes = _build_tree(objects)
TreeBuild ==
    /\ pc = "input"
    /\ forest' = build_tree(objects)
    /\ pc' = "built"
    /\ UNCHANGED <<tool, objects, requestVars>>
    /\ UNCHANGED <<planVars, lensVars, pairVars, cliVars>>

\* _sort_tree(roots), as orchestrate_mapping.py defines it
TreeSort ==
    /\ pc = "built"
    /\ forest' = SortForest(forest)
    /\ tool' = "orchestrate_mapping"
    /\ pc' = "sorted"
    /\ UNCHANGED <<objects, requestVars>>
    /\ UNCHANGED <<planVars, lensVars, pairVars, cliVars>>

\* _sort_tree(roots), as scene_outline.py defines it
TreeSortOutline ==
    /\ pc = "built"
    /\ forest' = OutlineSortForest(forest)
    /\ tool' = "get_scene_outline"
    /\ pc' = "sorted"
    /\ UNCHANGED <<objects, requestVars>>
    /\ UNCHANGED <<planVars, lensVars, pairVars, cliVars>>

NextTree == TreeBuild \/ TreeSort \/ TreeSortOutline

SpecTree == InitTree /\ [][NextTree]_vars

-----------------------------------------------------------------------------
(* Properties of the tree helpers *)

\* the paths that have a node: the truthy hierarchyPaths of the records
NodePaths == {PathOf(objects[i]) : i \in 1..Len(objects)} \ {<<>>}

\* q is the path before the last "/" of p
IsParentPath(q, p) ==
    /\ Len(q) < Len(p)
    /\ SubSeq(p, 1, Len(q) + 1) = q \o <<SLASH>>
    /\ \A j \in (Len(q) + 2)..Len(p) : p[j] # SLASH

HasParentNode(p) == \E q \in NodePaths : IsParentPath(q, p)

Occurrences(list, x) == Cardinality({i \in 1..Len(list) : list[i] = x})

TreeBuilt == pc \in {"built", "sorted"}

\* C7: in the forest of _build_tree a node is a root iff its path holds no
\* "/" or no node exists at the path before its last "/"; every other node
\* is, once, in the children of the node at that parent path and of no
\* other node.  An orphan nested path is a root, not dropped.
C7_RootsAndChildren ==
    TreeBuilt =>
        /\ DOMAIN forest.children = NodePaths
        /\ \A p \in NodePaths :
              /\ Occurrences(forest.roots, p) = IF HasParentNode(p) THEN 0 ELSE 1
              /\ \A q \in NodePaths :
                    Occurrences(forest.children[q], p) =
                        IF IsParentPath(q, p) THEN 1 ELSE 0
        /\ Range(forest.roots) \subseteq NodePaths
        /\ \A q \in NodePaths : Range(forest.children[q]) \subseteq NodePaths

\* an orphan nested path is a root beside a node that has a child
C7_Witness ==
    /\ pc = "built"
    /\ \E p \in Range(forest.roots) : HasSlash(p)
    /\ \E q \in NodePaths : forest.children[q] # <<>>

RecordsWithPath == Cardinality({i \in 1..Len(objects) : PathOf(objects[i]) # <<>>})

\* C8 as stated: the root subtree sizes sum to the number of records that
\* have a non-empty path.
C8_SumIsRecordCount ==
    TreeBuilt => SumSeq(RootSizes(forest)) = RecordsWithPath

\* C8 amended: the root subtree sizes sum to the number of distinct
\* non-empty paths of the records (two records with one path share a node).
C8_SumIsDistinctPathCount ==
    TreeBuilt => SumSeq(RootSizes(forest)) = Cardinality(NodePaths)

\* two records share a path and a root has a child
C8_Witness ==
    /\ pc = "built"
    /\ RecordsWithPath > Cardinality(NodePaths)
    /\ \E i \in 1..Len(forest.roots) : RootSizes(forest)[i] >= 2

IsAscending(list) == \A i \in 1..(Len(list) - 1) : StrLeq(list[i], list[i + 1])

SortedEveryLevel(f) ==
    /\ IsAscending(f.roots)
    /\ \A q \in DOMAIN f.children : IsAscending(f.children[q])

\* C9: after either _sort_tree has run on the forest of _build_tree, the
\* siblings of every level, the roots included, ascend by path.
C9_SortedEveryLevel ==
    pc = "sorted" => SortedEveryLevel(forest)

\* C10: orchestrate_mapping._sort_tree applied to a forest it has sorted
\* leaves it as it is.
C10_SortIdempotent ==
    (pc = "sorted" /\ tool = "orchestrate_mapping") => SortForest(forest) = forest

\* a forest of three or more roots whose order the first sort changed
C10_Witness ==
    /\ pc = "sorted"
    /\ tool = "orchestrate_mapping"
    /\ forest.roots # build_tree(objects).roots
    /\ Len(forest.roots) >= 3

-----------------------------------------------------------------------------
(* The planner applied to every total within the bound *)

MaxTotal == 1000    \* largest object count handed to the planner

InitPlan ==
    /\ tool = "none"
    /\ pc = "counted"
    /\ total_count \in 0..MaxTotal
    /\ diagram_suggestion = NoSuggestion
    /\ objects = <<>>
    /\ forest = EmptyForest
    /\ offset = 0
    /\ sent = <<>>
    /\ pages = <<>>
    /\ active_scene = ""
    /\ commit_response = NoResponse
    /\ sidecar = FALSE
    /\ result = NoResult
    /\ diagrams = <<>>
    /\ rows = <<>>
    /\ summary = NoSummary
    /\ grouping_lenses = NoLenses
    /\ suspended = NoFrame
    /\ CliStart
    /\ environ = DefaultEnviron

\* diagram_suggestion = _suggest_diagram_counts(total_count)
Suggest ==
    /\ pc = "counted"
    /\ diagram_suggestion' = suggest_diagram_counts(total_count)
    /\ pc' = "planned"
    /\ UNCHANGED <<tool, objects, forest, requestVars, total_count, diagrams, rows>>
    /\ UNCHANGED <<lensVars, pairVars, cliVars>>

NextPlan == Suggest

SpecPlan == InitPlan /\ [][NextPlan]_vars

-----------------------------------------------------------------------------
(* Properties of the planner *)

Planned == tool = "none" /\ pc = "planned"

\* the totals and counts that the bands are probed with
BandExamples ==
    {<<0, 1>>, <<80, 1>>, <<81, 2>>, <<200, 2>>, <<201, 3>>, <<400, 3>>,
     <<401, 4>>, <<1000, 4>>}

\* C11: diagramCount is 1 up to 80 objects, 2 up to 200, 3 up to 400 and 4
\* beyond, i.e. one more than the number of thresholds the total exceeds; the
\* totals 0, 80, 81, 200, 201, 400, 401, 1000 give 1, 1, 2, 2, 3, 3, 4, 4;
\* and no smaller total is given more diagrams
C11_DiagramCountBands ==
    Planned =>
        /\ diagram_suggestion.diagramCount
             = 1 + Cardinality({t \in {80, 200, 400} : total_count > t})
        /\ \A e \in BandExamples :
             total_count = e[1] => diagram_suggestion.diagramCount = e[2]
        /\ \A t \in 0..total_count :
             suggest_diagram_counts(t).diagramCount <= diagram_suggestion.diagramCount

C11_Witness ==
    Planned /\ total_count = 200 /\ diagram_suggestion.diagramCount = 2

\* C12: for a total above 0 the target is total // diagramCount brought into
\* 30..150, so it is never below 30 nor above 150
C12_TargetClamped ==
    (Planned /\ total_count > 0) =>
        LET q == total_count \div diagram_suggestion.diagramCount
        IN /\ diagram_suggestion.targetNodesPerDiagram
                = (IF q < 30 THEN 30 ELSE IF q > 150 THEN 150 ELSE q)
           /\ diagram_suggestion.targetNodesPerDiagram >= 30
           /\ diagram_suggestion.targetNodesPerDiagram <= 150

C12_Witness ==
    /\ Planned
    /\ total_count = 100
    /\ diagram_suggestion.targetNodesPerDiagram = 50

\* C13: for a total of 0 the target is 0
C13_ZeroTotalZeroTarget ==
    (Planned /\ total_count = 0) => diagram_suggestion.targetNodesPerDiagram = 0

-----------------------------------------------------------------------------
(* The partitioner and the row deriver applied to every record list within
   the bounds *)

MaxDiagrams == 3    \* largest diagram_count handed to _build_diagrams

\* "A" and "A/A", the paths taken with every identity
DiagramPaths == {<<65>>, <<65, SLASH, 65>>}

\* records at "A" and "A/A" with and without identity, at "A/A/A" with an
\* identity, a second root "B", and a record with an identity and no path
DiagramEntries ==
    {Entry(p, g) : p \in DiagramPaths, g \in GlobalIds}
    \cup {Entry(DeepPath, g) : g \in GlobalIds \ {""}}
    \cup {Entry(<<66>>, "g1"), Entry(<<>>, "g1")}

\* a root and n children of it, all with an identity
Family(root, n) ==
    <<Entry(<<root>>, "g1")>> \o [k \in 1..n |-> Entry(<<root, SLASH, 96 + k>>, "g1")]

\* three roots "A", "B", "C" with subtrees of 10, 10 and 5 nodes
GreedyExample == Family(65, 9) \o Family(66, 9) \o Family(67, 4)

\* the paths A, A/B, A/B/C, D with the identities a, ab, abc, d
RowsExample ==
    <<Entry(<<65>>, "a"), Entry(<<65, SLASH, 66>>, "ab"),
      Entry(<<65, SLASH, 66, SLASH, 67>>, "abc"), Entry(<<68>>, "d")>>

\* two adjacencies whose identities differ and whose formatted keys coincide
CollidingExample ==
    <<Entry(<<65>>, "x|part_of|y"), Entry(<<65, SLASH, 65>>, "z"),
      Entry(<<66>>, "x"), Entry(<<66, SLASH, 65>>, "y|part_of|z")>>

InitDiagram ==
    /\ tool = "none"
    /\ pc = "records"
    /\ objects \in SeqsUpTo(DiagramEntries, MaxObjects)
                     \cup {GreedyExample, RowsExample, CollidingExample}
    /\ forest = EmptyForest
    /\ offset = 0
    /\ sent = <<>>
    /\ pages = <<>>
    /\ active_scene = ""
    /\ commit_response = NoResponse
    /\ sidecar = FALSE
    /\ result = NoResult
    /\ total_count = 0
    /\ diagram_suggestion = NoSuggestion
    /\ diagrams = <<>>
    /\ rows = <<>>
    /\ summary = NoSummary
    /\ grouping_lenses = NoLenses
    /\ suspended = NoFrame
    /\ CliStart
    /\ environ = DefaultEnviron

\* roots, _nodes = _build_tree(objects); _sort_tree(roots); total_count = len(objects)
DiagramTree ==
    /\ pc = "records"
    /\ forest' = SortForest(build_tree(objects))
    /\ total_count' = Len(objects)
    /\ pc' = "sorted"
    /\ UNCHANGED <<tool, objects, requestVars, diagram_suggestion, diagrams, rows>>
    /\ UNCHANGED <<lensVars, pairVars, cliVars>>

\* diagrams = _build_diagrams(objects, roots, diagram_count), for any
\* diagram_count, and rows = _build_hierarchy_rows(objects, condition)
Partition ==
    /\ pc = "sorted"
    /\ \E diagram_count \in 0..MaxDiagrams :
         /\ diagram_suggestion' =
                [diagramCount |-> diagram_count,
                 targetNodesPerDiagram |-> TargetNodes(total_count, diagram_count)]
         /\ diagrams' = build_diagrams(objects, forest, diagram_count)
    /\ rows' = build_hierarchy_rows(objects)
    /\ pc' = "partitioned"
    /\ UNCHANGED <<tool, objects, forest, requestVars, total_count>>
    /\ UNCHANGED <<lensVars, pairVars, cliVars>>

NextDiagram == DiagramTree \/ Partition

SpecDiagram == InitDiagram /\ [][NextDiagram]_vars

-----------------------------------------------------------------------------
(* Properties of the partitioner *)

Partitioned == tool = "none" /\ pc = "partitioned"

\* the places (diagram, position) of the diagram list that hold a root path
RootPlaces == {<<i, j>> \in (1..Len(diagrams)) \X (1..Len(forest.roots)) :
                  j <= Len(diagrams[i].rootPaths)}

\* the subtree sizes of the roots a diagram owns
OwnedSizes(d) ==
    [j \in 1..Len(d.rootPaths) |-> count_subtree(forest.children, d.rootPaths[j])]

\* C14: each root path of the forest is in the rootPaths of exactly one
\* diagram (and once), nothing else is, and each diagram's nodeCount is the
\* sum of the subtree sizes of the roots it owns
C14_RootsPartitioned ==
    Partitioned =>
        /\ \A r \in Range(forest.roots) :
             Cardinality({pl \in RootPlaces : diagrams[pl[1]].rootPaths[pl[2]] = r}) = 1
        /\ \A i \in 1..Len(diagrams) :
             /\ Len(diagrams[i].rootPaths) <= Len(forest.roots)
             /\ Range(diagrams[i].rootPaths) \subseteq Range(forest.roots)
             /\ diagrams[i].nodeCount = SumSeq(OwnedSizes(diagrams[i]))

C14_Witness ==
    /\ Partitioned
    /\ Len(diagrams) = 2
    /\ \E i \in 1..Len(diagrams) :
         Len(diagrams[i].rootPaths) = 2 /\ diagrams[i].nodeCount = 2

\* root q is taken before root r: the larger subtree first, equal sizes in
\* ascending path order
TakenBefore(q, r) ==
    \/ count_subtree(forest.children, q) > count_subtree(forest.children, r)
    \/ /\ count_subtree(forest.children, q) = count_subtree(forest.children, r)
       /\ StrLess(q, r)

\* the k-th root taken
TakenAt(k) ==
    CHOOSE r \in Range(forest.roots) :
        Cardinality({q \in Range(forest.roots) : TakenBefore(q, r)}) = k - 1

\* what each of n labels holds once the first k roots are given out, each
\* root going to the label with the least running count (the least label on
\* equal counts)
RECURSIVE GivenOut(_, _)
GivenOut(k, n) ==
    IF k = 0 THEN [t \in 1..n |-> [rootPaths |-> <<>>, nodeCount |-> 0]]
    ELSE LET before == GivenOut(k - 1, n)
             least == CHOOSE t \in 1..n : \A u \in 1..n :
                          \/ before[t].nodeCount < before[u].nodeCount
                          \/ /\ before[t].nodeCount = before[u].nodeCount
                             /\ StrLeq(Title(t), Title(u))
         IN [before EXCEPT ![least] =
                [rootPaths |-> Append(@.rootPaths, TakenAt(k)),
                 nodeCount |-> @.nodeCount + count_subtree(forest.children, TakenAt(k))]]

\* C15: the roots are given out greedily, in descending subtree size (equal
\* sizes by ascending path), each to the diagram with the least running
\* nodeCount (equal counts by label); for roots of 10, 10 and 5 nodes and two
\* diagrams, Diagram 1 ends with the first and third root and 15 nodes,
\* Diagram 2 with the second root and 10 nodes
C15_GreedyAssignment ==
    (Partitioned /\ forest.roots # <<>>) =>
        /\ \A i \in 1..Len(diagrams) : \E t \in 1..Len(diagrams) :
             /\ diagrams[i].title = Title(t)
             /\ diagrams[i].rootPaths
                  = GivenOut(Len(forest.roots), Len(diagrams))[t].rootPaths
             /\ diagrams[i].nodeCount
                  = GivenOut(Len(forest.roots), Len(diagrams))[t].nodeCount
        /\ (objects = GreedyExample /\ diagram_suggestion.diagramCount = 2) =>
             /\ Len(diagrams) = 2
             /\ \E i \in 1..2 : /\ diagrams[i].title = Title(1)
                                /\ diagrams[i].rootPaths = <<<<65>>, <<67>>>>
                                /\ diagrams[i].nodeCount = 15
             /\ \E i \in 1..2 : /\ diagrams[i].title = Title(2)
                                /\ diagrams[i].rootPaths = <<<<66>>>>
                                /\ diagrams[i].nodeCount = 10

C15_Witness ==
    /\ Partitioned
    /\ objects = GreedyExample
    /\ diagram_suggestion.diagramCount = 2
    /\ \E i \in 1..Len(diagrams) : diagrams[i].nodeCount = 15

\* the diagram_count argument raised to at least 1
AtLeastOne == IF diagram_suggestion.diagramCount >= 1
              THEN diagram_suggestion.diagramCount ELSE 1

SomeRecordHasPath == \E i \in 1..Len(objects) : PathOf(objects[i]) # <<>>

\* C16: with some rooted path there are min(max(1, diagramCount), number of
\* roots) diagrams; with none there are max(1, diagramCount) diagrams, titled
\* "Diagram 1" to "Diagram n" in that order, each without roots, without
\* members and with nodeCount 0
C16_NumberOfDiagrams ==
    Partitioned =>
        IF SomeRecordHasPath
        THEN Len(diagrams) = (IF AtLeastOne <= Len(forest.roots)
                              THEN AtLeastOne ELSE Len(forest.roots))
        ELSE /\ Len(diagrams) = AtLeastOne
             /\ \A n \in 1..Len(diagrams) :
                  /\ diagrams[n].title = DiagramWord \o DecimalStr(n)
                  /\ diagrams[n].rootPaths = <<>>
                  /\ diagrams[n].objectIds = <<>>
                  /\ diagrams[n].nodeCount = 0

C16_Witness ==
    /\ Partitioned
    /\ diagram_suggestion.diagramCount = 3
    /\ Len(forest.roots) = 2
    /\ Len(diagrams) = 2

NodeCounts == [i \in 1..Len(diagrams) |-> diagrams[i].nodeCount]

\* the records with both an identity and a non-empty path
Placeable == {i \in 1..Len(objects) :
                 GidOf(objects[i]) # "" /\ PathOf(objects[i]) # <<>>}

\* C17 as claimed: for a non-empty record list the nodeCounts add up to the
\* number of records that have both an identity and a non-empty path
C17_SumIsPlaceableCount ==
    (Partitioned /\ objects # <<>>) => SumSeq(NodeCounts) = Cardinality(Placeable)

\* C17, amended: for a non-empty record list the nodeCounts add up to the
\* number of distinct non-empty paths of the records, with or without identity
C17_SumIsPathCount ==
    (Partitioned /\ objects # <<>>) => SumSeq(NodeCounts) = Cardinality(NodePaths)

C17_Witness ==
    /\ Partitioned
    /\ Len(diagrams) = 2
    /\ Cardinality(Placeable) = 1
    /\ SumSeq(NodeCounts) = 3

\* root path r is the path itself or a prefix of it that ends before a "/"
Covers(r, path) ==
    \/ path = r
    \/ /\ Len(r) < Len(path)
       /\ SubSeq(path, 1, Len(r)) = r
       /\ path[Len(r) + 1] = SLASH

\* the positions of the diagram list whose diagram owns a root covering the path
Owners(path) ==
    {d \in 1..Len(diagrams) : \E r \in Range(diagrams[d].rootPaths) : Covers(r, path)}

\* the identities of the placeable records whose first owner, in list order,
\* is the diagram at position d, in record order
TaggedInto(d) ==
    LET mine == SelectSeq(objects,
                    LAMBDA e : /\ GidOf(e) # ""
                               /\ PathOf(e) # <<>>
                               /\ d \in Owners(PathOf(e))
                               /\ \A k \in Owners(PathOf(e)) : d <= k)
    IN [k \in 1..Len(mine) |-> GidOf(mine[k])]

\* C18: each record with an identity and a non-empty path has its identity
\* appended to exactly one diagram, the first of the list that owns a root
\* equal to its path or a "/"-terminated prefix of it; a record without
\* identity or without path is appended to none
C18_MembersTagged ==
    Partitioned =>
        /\ \A i \in Placeable : Owners(PathOf(objects[i])) # {}
        /\ \A d \in 1..Len(diagrams) : diagrams[d].objectIds = TaggedInto(d)

C18_Witness ==
    /\ Partitioned
    /\ Len(diagrams) = 2
    /\ Placeable # {}
    /\ \E i \in 1..Len(objects) : GidOf(objects[i]) # "" /\ PathOf(objects[i]) = <<>>
    /\ \E i \in 1..Len(objects) : GidOf(objects[i]) = "" /\ PathOf(objects[i]) # <<>>

UniquePaths ==
    \A i, j \in 1..Len(objects) : i # j => PathOf(objects[i]) # PathOf(objects[j])

\* the root whose subtree holds the node of the path
RECURSIVE RootOf(_)
RootOf(path) ==
    IF path \in Range(forest.roots) THEN path ELSE RootOf(RsplitHead(path))

\* C19: with unique paths no record's path is covered by roots of two
\* different diagrams, and each diagram lists exactly the placeable records
\* of the subtrees its nodeCount counted
C19_RootsNeverOverlap ==
    (Partitioned /\ UniquePaths) =>
        /\ \A i \in 1..Len(objects) : Cardinality(Owners(PathOf(objects[i]))) <= 1
        /\ \A d \in 1..Len(diagrams) :
             Len(diagrams[d].objectIds)
               = Cardinality({i \in Placeable :
                     RootOf(PathOf(objects[i])) \in Range(diagrams[d].rootPaths)})

-----------------------------------------------------------------------------
(* Properties of the row deriver *)

\* a record that can be the object of a row: a "/" in its path, an identity
IsChild(c) == HasSlash(PathOf(c)) /\ GidOf(c) # ""

\* the positions (parent, child) where the parent record has an identity and
\* lies at the child's parent path
Adjacent ==
    {ij \in (1..Len(objects)) \X (1..Len(objects)) :
        /\ IsChild(objects[ij[2]])
        /\ GidOf(objects[ij[1]]) # ""
        /\ PathOf(objects[ij[1]]) = RsplitHead(PathOf(objects[ij[2]]))}

\* the record is the last of the list with its path
LastAtPath(i) ==
    \A k \in (i + 1)..Len(objects) : PathOf(objects[k]) # PathOf(objects[i])

ClaimedPairs ==
    {<<GidOf(objects[ij[1]]), GidOf(objects[ij[2]])>> : ij \in Adjacent}

DerivedPairs ==
    {<<GidOf(objects[ij[1]]), GidOf(objects[ij[2]])>> :
        ij \in {a \in Adjacent : LastAtPath(a[1])}}

RowPairs == {<<rows[k].subject.globalId, rows[k].object.globalId>> : k \in 1..Len(rows)}

\* every row is a part_of row from a parent record to a child record of the
\* list, with confidence 1.0 and no evidence
RowShape ==
    \A k \in 1..Len(rows) :
        /\ rows[k].predicate = "part_of"
        /\ rows[k].confidence = 1
        /\ rows[k].evidence = <<>>
        /\ \E i, j \in 1..Len(objects) :
             /\ rows[k].subject = objects[i].object
             /\ rows[k].object = objects[j].object
             /\ IsChild(objects[j])
             /\ PathOf(objects[i]) = RsplitHead(PathOf(objects[j]))

RowsOfExample == {<<"a", "ab">>, <<"ab", "abc">>}

\* C20 as claimed: exactly one row per distinct pair (parent identity, child
\* identity) such that the child's path has a "/", the child has an identity
\* and some record with an identity lies at the child's parent path; for the
\* paths A, A/B, A/B/C, D with identities a, ab, abc, d the rows are (a, ab)
\* and (ab, abc)
C20_RowPerClaimedPair ==
    Partitioned =>
        /\ RowShape
        /\ RowPairs = ClaimedPairs
        /\ Len(rows) = Cardinality(ClaimedPairs)
        /\ objects = RowsExample => RowPairs = RowsOfExample

\* C20, amended: exactly one row per distinct key "parent|part_of|child" over
\* the pairs such that the child's path has a "/", the child has an identity
\* and the last record with the child's parent path has an identity; every
\* row is such a pair; same rows for the example
C20_RowPerDerivedKey ==
    Partitioned =>
        /\ RowShape
        /\ RowPairs \subseteq DerivedPairs
        /\ {Key(pr[1], pr[2]) : pr \in RowPairs} = {Key(pr[1], pr[2]) : pr \in DerivedPairs}
        /\ Len(rows) = Cardinality({Key(pr[1], pr[2]) : pr \in DerivedPairs})
        /\ objects = RowsExample => (RowPairs = RowsOfExample /\ Len(rows) = 2)

C20_Witness ==
    /\ Partitioned
    /\ Len(rows) = 1
    /\ Cardinality(ClaimedPairs) = 2

-----------------------------------------------------------------------------
(* Further properties of the partitioner *)

\* the subtree sizes of the roots of the forest
AllRootSizes == {count_subtree(forest.children, r) : r \in Range(forest.roots)}

\* C27: the largest and the smallest nodeCount differ by at most the subtree
\* size of the largest root, whatever the forest and the diagram count
C27_BalanceBound ==
    (Partitioned /\ forest.roots # <<>>) =>
        \A i, j \in 1..Len(diagrams) : \E size \in AllRootSizes :
            diagrams[i].nodeCount - diagrams[j].nodeCount <= size
            /\ \A other \in AllRootSizes : other <= size

C27_Witness ==
    /\ Partitioned
    /\ Len(diagrams) = 2
    /\ \E i, j \in 1..Len(diagrams) : diagrams[i].nodeCount - diagrams[j].nodeCount = 2

\* C28: when the forest has a root, every diagram owns at least one root path
\* and counts at least one node
C28_NoEmptyDiagram ==
    (Partitioned /\ forest.roots # <<>>) =>
        \A i \in 1..Len(diagrams) :
            diagrams[i].rootPaths # <<>> /\ diagrams[i].nodeCount >= 1

C28_Witness ==
    /\ Partitioned
    /\ diagram_suggestion.diagramCount = 3
    /\ Len(diagrams) = 3
    /\ \A i \in 1..Len(diagrams) : Len(diagrams[i].rootPaths) = 1

\* C29: the returned list is in ascending label order: position n holds
\* "Diagram n"
C29_ListInLabelOrder ==
    Partitioned => \A n \in 1..Len(diagrams) : diagrams[n].title = Title(n)

-----------------------------------------------------------------------------
(* The grouping lenses and the summary of both entry points, applied to every
   record list within the bounds *)

\* "Enemy" as code points
Enemy == <<69, 110, 101, 109, 121>>

\* a record of the index with every field the helpers read
LensRecord(path, gid, prefab, tag, layer, components, inHierarchy, self) ==
    [object |-> [hierarchyPath |-> path, globalId |-> gid, prefabPath |-> prefab],
     tag |-> tag,
     layer |-> layer,
     componentTypeNames |-> components,
     activeInHierarchy |-> inHierarchy,
     activeSelf |-> self]

\* records with only a path and an identity ("A/A" and one without path),
\* and records with all fields: "A" tagged Enemy with components "U.T" and
\* "T"; "B" tagged Enemy on layer 0 with an empty component name; one without
\* path, with an empty tag and a component "R."; a second record at "A"
\* tagged "Untagged" on layer 10
LensEntries ==
    {Entry(<<65, SLASH, 65>>, "g1"),
     Entry(<<>>, "g1"),
     LensRecord(<<65>>, "g1", <<80>>, Enemy, 8, <<<<85, DOT, 84>>, <<84>>>>, TRUE, TRUE),
     LensRecord(<<66>>, "g1", <<>>, Enemy, 0, <<<<84>>, <<>>>>, FALSE, TRUE),
     LensRecord(<<>>, "g1", <<80>>, <<>>, 8, <<<<82, DOT>>>>, TRUE, FALSE),
     LensRecord(<<65>>, "g2", <<>>, Untagged, 10, <<<<82>>>>, FALSE, FALSE)}

\* 27 records at three root paths, over 26 tags, layers, prefabs and
\* components: the last two records share theirs
ManyBuckets ==
    [k \in 1..27 |->
        LensRecord(<<97 + (k % 3)>>, "g1", <<64 + Min(k, 26)>>, <<64 + Min(k, 26)>>,
                   Min(k, 26), <<<<64 + Min(k, 26)>>>>, TRUE, TRUE)]

InitLens ==
    /\ tool = "none"
    /\ pc = "records"
    /\ objects \in SeqsUpTo(LensEntries, MaxObjects) \cup {ManyBuckets}
    /\ forest = EmptyForest
    /\ offset = 0
    /\ sent = <<>>
    /\ pages = <<>>
    /\ active_scene = ""
    /\ commit_response = NoResponse
    /\ sidecar = FALSE
    /\ result = NoResult
    /\ total_count = 0
    /\ diagram_suggestion = NoSuggestion
    /\ diagrams = <<>>
    /\ rows = <<>>
    /\ summary = NoSummary
    /\ grouping_lenses = NoLenses
    /\ suspended = NoFrame
    /\ CliStart
    /\ environ = DefaultEnviron

\* orchestrate_mapping from _build_tree to _suggest_diagram_counts
AnalyseOrchestrate ==
    /\ pc = "records"
    /\ forest' = SortForest(build_tree(objects))
    /\ total_count' = Len(objects)
    /\ summary' = Summary(objects)
    /\ grouping_lenses' = build_grouping_lenses(objects, SortForest(build_tree(objects)))
    /\ diagram_suggestion' = suggest_diagram_counts(Len(objects))
    /\ pc' = "orchestrated"
    /\ UNCHANGED <<tool, objects, requestVars, diagrams, rows, pairVars, cliVars>>

\* get_scene_outline from _build_tree to the payload, on the same records
AnalyseOutline ==
    /\ pc = "orchestrated"
    /\ result' = OutlineResult(objects, active_scene, OutlineSortForest(build_tree(objects)))
    /\ pc' = "outlined"
    /\ UNCHANGED <<tool, objects, forest, offset, sent, pages, active_scene,
                   commit_response, sidecar, planVars, lensVars, pairVars, cliVars>>

NextLens == AnalyseOrchestrate \/ AnalyseOutline

SpecLens == InitLens /\ [][NextLens]_vars

-----------------------------------------------------------------------------
(* Properties of the grouping lenses *)

Analysed == tool = "none" /\ pc \in {"orchestrated", "outlined"}

\* the bucket of a record in the tag table and in the layer table
TagBucket(e) == IF "tag" \in DOMAIN e /\ e.tag # <<>> THEN e.tag ELSE Untagged
LayerBucket(e) == IF "layer" \in DOMAIN e THEN DecimalStr(e.layer) ELSE <<48>>

CountsOf(list) == [k \in 1..Len(list) |-> list[k].count]

\* C21: each record counts once in its tag bucket ("Untagged" without a tag)
\* and once in its layer bucket ("0" without a layer, else the layer as a
\* string), so the counts of a list that is not cut off add up to the number
\* of records; the tags Enemy, Enemy, absent give Enemy 2 and Untagged 1
C21_OneCountPerRecord ==
    Analysed =>
        /\ \A k \in 1..Len(grouping_lenses.tags) :
             grouping_lenses.tags[k].count =
                 Cardinality({i \in 1..Len(objects) :
                                 TagBucket(objects[i]) = grouping_lenses.tags[k].key})
        /\ \A k \in 1..Len(grouping_lenses.layers) :
             grouping_lenses.layers[k].count =
                 Cardinality({i \in 1..Len(objects) :
                                 LayerBucket(objects[i]) = grouping_lenses.layers[k].key})
        /\ Len(grouping_lenses.tags) < TopLimit =>
             SumSeq(CountsOf(grouping_lenses.tags)) = Len(objects)
        /\ Len(grouping_lenses.layers) < TopLimit =>
             SumSeq(CountsOf(grouping_lenses.layers)) = Len(objects)
        /\ (/\ Len(objects) = 3
            /\ "tag" \in DOMAIN objects[1] /\ objects[1].tag = Enemy
            /\ "tag" \in DOMAIN objects[2] /\ objects[2].tag = Enemy
            /\ "tag" \notin DOMAIN objects[3]) =>
             grouping_lenses.tags = <<[key |-> Enemy, count |-> 2],
                                      [key |-> Untagged, count |-> 1]>>

C21_Witness ==
    /\ Analysed
    /\ Len(objects) = 3
    /\ "tag" \notin DOMAIN objects[3]
    /\ grouping_lenses.tags = <<[key |-> Enemy, count |-> 2],
                                [key |-> Untagged, count |-> 1]>>
    /\ Len(grouping_lenses.layers) = 2

\* C22: a record without a path is left out of the depth histogram, whose
\* counts add up to the number of records that have a path
C22_DepthCountsOnlyPaths ==
    Analysed =>
        SumSeq(CountsOf(grouping_lenses.depthHistogram))
          = Cardinality({i \in 1..Len(objects) : PathOf(objects[i]) # <<>>})

TagKeys(e) == {TagBucket(e)}
LayerKeys(e) == {LayerBucket(e)}

\* the list holds the highest-ranked buckets of the records, at most 25, in
\* rank order: larger counts first, equal counts by ascending key
IsTopList(list, Keys(_)) ==
    LET all == UNION {Keys(objects[i]) : i \in 1..Len(objects)}
        cnt(key) == Cardinality({i \in 1..Len(objects) : key \in Keys(objects[i])})
        Above(a, b) == cnt(a) > cnt(b) \/ (cnt(a) = cnt(b) /\ StrLess(a, b))
    IN /\ Len(list) <= TopLimit
       /\ Len(list) = TopLimit \/ Len(list) = Cardinality(all)
       /\ \A k \in 1..Len(list) : list[k].key \in all /\ list[k].count = cnt(list[k].key)
       /\ \A k \in 1..(Len(list) - 1) : Above(list[k].key, list[k + 1].key)
       /\ \A omitted \in all \ {list[k].key : k \in 1..Len(list)} :
            \A k \in 1..Len(list) : Above(list[k].key, omitted)

\* C23: the tag, layer, prefab and component lists each hold at most 25
\* buckets, the highest-ranked ones, by descending count and then ascending
\* key; the root summary holds every root, by descending subtree size and
\* then ascending path
C23_TopListsAndRoots ==
    Analysed =>
        /\ IsTopList(grouping_lenses.tags, TagKeys)
        /\ IsTopList(grouping_lenses.layers, LayerKeys)
        /\ IsTopList(grouping_lenses.prefabs, PrefabKeys)
        /\ IsTopList(grouping_lenses.components, ComponentKeys)
        /\ Len(grouping_lenses.roots) = Len(forest.roots)
        /\ {grouping_lenses.roots[k].hierarchyPath : k \in 1..Len(grouping_lenses.roots)}
             = Range(forest.roots)
        /\ \A k \in 1..Len(grouping_lenses.roots) :
             grouping_lenses.roots[k].subtreeSize
               = count_subtree(forest.children, grouping_lenses.roots[k].hierarchyPath)
        /\ \A k \in 1..(Len(grouping_lenses.roots) - 1) :
             \/ grouping_lenses.roots[k].subtreeSize > grouping_lenses.roots[k + 1].subtreeSize
             \/ /\ grouping_lenses.roots[k].subtreeSize = grouping_lenses.roots[k + 1].subtreeSize
                /\ StrLess(grouping_lenses.roots[k].hierarchyPath,
                           grouping_lenses.roots[k + 1].hierarchyPath)

C23_Witness ==
    /\ Analysed
    /\ objects = ManyBuckets
    /\ Len(grouping_lenses.tags) = 25
    /\ grouping_lenses.tags[1] = [key |-> <<90>>, count |-> 2]
    /\ grouping_lenses.tags[25].key = <<88>>
    /\ Len(grouping_lenses.roots) = 3

Outlined == tool = "none" /\ pc = "outlined"

\* the summary counts, the grouping lenses and the suggestion of the outline
\* payload are those orchestrate_mapping computed from the same records
SameOutputs ==
    /\ result.data.summary = summary
    /\ result.data.summary.activeInHierarchy + result.data.summary.inactive
         = result.data.summary.totalObjects
    /\ result.data.groupingLenses = grouping_lenses
    /\ result.data.diagramGuidance.suggested = diagram_suggestion

\* C30: on the same records the outline and orchestrate_mapping compute the
\* same summary counts (activeInHierarchy + inactive = totalObjects), the
\* same grouping lenses and the same suggested diagram count and target, and
\* their copies of the tree helpers give the same sorted forest
C30_EntryPointsEquivalent ==
    Outlined => SameOutputs /\ result.data.hierarchy = forest

\* the part of C30 about the computed outputs alone
C30_SameOutputs == Outlined => SameOutputs

-----------------------------------------------------------------------------
(* Termination of the pagination loop *)

Paginating == tool \in {"orchestrate_mapping", "get_scene_outline"}

InLoop == Paginating /\ pc = "awaitPage"

LoopLeft == Paginating /\ Len(Fetches) > 0 /\ pc # "awaitPage"

\* the three kinds of page the claim names: unsuccessful, without
\* next_offset, with a next_offset that int() does not take
Stops(r) ==
    \/ ~(r.isDict /\ r.success)
    \/ r.data.next_offset.t = "none"
    \/ ~PyInt(r.data.next_offset).ok

\* the loop was left by the page at the last position, the first that stops
LeftByPage ==
    /\ Len(pages) >= 1
    /\ Stops(pages[Len(pages)])
    /\ \A k \in 1..(Len(pages) - 1) : ~Stops(pages[k])
    /\ Len(Fetches) = Len(pages)

\* the loop was left at the await of a page that never arrived
LeftAtAwait ==
    /\ pc \in {"raised", "cancelled"}
    /\ \A k \in 1..Len(pages) : ~Stops(pages[k])
    /\ Len(Fetches) = Len(pages) + 1

\* C26: the loop is only left by a page that is unsuccessful, has no
\* next_offset or has an unparsable one, and the number of fetches made is
\* the position of the first such page
C26_OnlyThreeExits == LoopLeft => LeftByPage

\* C26 (amended): a request waiting for a page leaves the loop; a page leaves
\* it exactly when it is the first that is unsuccessful, without next_offset
\* or with an unparsable one, after as many fetches as its position; the
\* loop is otherwise left only at the await, by an exception or a
\* cancellation, one fetch ahead of the pages received
C26_LoopTerminates ==
    /\ [](InLoop => /\ \A k \in 1..Len(pages) : ~Stops(pages[k])
                    /\ Len(Fetches) = Len(pages) + 1)
    /\ [](LoopLeft => LeftByPage \/ LeftAtAwait)
    /\ (InLoop ~> ~InLoop)

C26_Witness ==
    /\ LoopLeft
    /\ LeftByPage
    /\ Len(pages) = 2
    /\ pages[2].isDict /\ pages[2].success
    /\ pages[2].data.next_offset.t = "str"

-----------------------------------------------------------------------------
(* The global CLI configuration: set_config, get_config and changes of the *)
(* environment between the calls                                           *)

\* the variables of the requests, which the CLI module does not touch
serverVars == <<tool, pc, objects, forest, requestVars, planVars, lensVars, pairVars>>

InitCli ==
    /\ tool = "none"
    /\ pc = "cli"
    /\ objects = <<>>
    /\ forest = EmptyForest
    /\ offset = 0
    /\ sent = <<>>
    /\ pages = <<>>
    /\ active_scene = ""
    /\ commit_response = NoResponse
    /\ sidecar = FALSE
    /\ result = NoResult
    /\ total_count = 0
    /\ diagram_suggestion = NoSuggestion
    /\ diagrams = <<>>
    /\ rows = <<>>
    /\ summary = NoSummary
    /\ grouping_lenses = NoLenses
    /\ suspended = NoFrame
    /\ CliStart
    /\ environ \in Environs

\* from_env is called on every get_config
NeedsCreationAlways(c) == TRUE

\* if _config is None
NeedsCreation(c) == c = NoConfig

\* get_config(): the call returns _config, made from the environment first
\* when there is none; ValueError of from_env leaves the call before the
\* assignment
GetConfig ==
    /\ pc = "cli"
    /\ gets < MaxGets
    /\ gets' = gets + 1
    /\ IF NeedsCreation(config)
       THEN LET made == from_env(environ, EnvId(created + 1))
            IN IF made.ok
               THEN /\ config' = made.value
                    /\ created' = created + 1
                    /\ returned' = [call |-> "get_config", value |-> made.value,
                                    raised |-> FALSE]
               ELSE /\ returned' = [call |-> "get_config", value |-> NoConfig,
                                    raised |-> TRUE]
                    /\ UNCHANGED <<config, created>>
       ELSE /\ returned' = [call |-> "get_config", value |-> config, raised |-> FALSE]
            /\ UNCHANGED <<config, created>>
    /\ UNCHANGED <<environ, last_set, serverVars>>

\* set_config(c)
SetConfig ==
    /\ pc = "cli"
    /\ \E c \in CallerConfigs :
         /\ config' = c
         /\ last_set' = c
    /\ returned' = [call |-> "set_config", value |-> NoConfig, raised |-> FALSE]
    /\ UNCHANGED <<environ, created, gets, serverVars>>

\* the process changes os.environ (monkeypatch.setenv in the tests)
SetEnviron ==
    /\ pc = "cli"
    /\ \E e \in Environs \ {environ} : environ' = e
    /\ UNCHANGED <<config, created, returned, last_set, gets, serverVars>>

NextCli == GetConfig \/ SetConfig \/ SetEnviron

SpecCli == InitCli /\ [][NextCli]_vars

-----------------------------------------------------------------------------
(* Properties of the CLI configuration *)

\* a get_config call since the last set_config returned the instance set
ReturnsWhatWasSet ==
    (last_set # NoConfig /\ returned.call = "get_config") =>
        /\ ~returned.raised
        /\ returned.value = last_set
        /\ config = last_set

\* C25: after set_config(c) every get_config returns c until the next
\* set_config; with no configuration set, the first get_config creates one
\* from the environment and every later get_config returns that instance,
\* which is created once
C25_SetThenGet ==
    /\ ReturnsWhatWasSet
    /\ (last_set = NoConfig /\ gets >= 1) =>
          /\ created = 1
          /\ config.id = EnvId(1)
          /\ returned = [call |-> "get_config", value |-> config, raised |-> FALSE]

\* C25 (amended): as C25, where the first get_config is the first one in
\* which from_env does not raise; a get_config in which it raises returns
\* nothing and leaves no configuration, so that the next one tries again
C25_SetThenGetUnlessRaised ==
    /\ ReturnsWhatWasSet
    /\ last_set = NoConfig =>
          /\ created <= 1
          /\ created = 0 => /\ config = NoConfig
                            /\ gets >= 1 => returned.raised
          /\ created = 1 =>
                /\ config.id = EnvId(1)
                /\ returned = [call |-> "get_config", value |-> config, raised |-> FALSE]

C25_Witness ==
    /\ last_set = NoConfig
    /\ gets = 3
    /\ created = 1
    /\ returned.value = config
    /\ config.port = 90
    /\ ~from_env(environ, 0).ok

-----------------------------------------------------------------------------
(* Two orchestrate_mapping requests on one event loop: one runs from await *)
(* to await while the other is suspended, and the loop may resume either   *)

\* the locals of the running call, as its frame keeps them while it is
\* suspended; the sidecar file is on disk and belongs to no call
Frame ==
    [tool |-> tool, pc |-> pc, offset |-> offset, objects |-> objects,
     forest |-> forest, sent |-> sent, pages |-> pages,
     active_scene |-> active_scene, commit_response |-> commit_response,
     result |-> result, total_count |-> total_count,
     diagram_suggestion |-> diagram_suggestion, diagrams |-> diagrams,
     rows |-> rows, summary |-> summary, grouping_lenses |-> grouping_lenses]

\* a call that has not run yet
StartFrame ==
    [tool |-> "orchestrate_mapping", pc |-> "start", offset |-> 0, objects |-> <<>>,
     forest |-> EmptyForest, sent |-> <<>>, pages |-> <<>>,
     active_scene |-> "", commit_response |-> NoResponse,
     result |-> NoResult, total_count |-> 0,
     diagram_suggestion |-> NoSuggestion, diagrams |-> <<>>,
     rows |-> <<>>, summary |-> NoSummary, grouping_lenses |-> NoLenses]

\* the pages the two requests are answered with
PairResponses ==
    {FailureResponse,
     Response(TRUE, TRUE, "ok", PageData(<<Entry(<<65>>, "g1")>>, IntOffset(1))),
     Response(TRUE, TRUE, "ok", PageData(<<Entry(<<65, SLASH, 65>>, "g2")>>, NoOffset)),
     Response(TRUE, TRUE, "ok", PageData(<<Entry(<<65>>, "g1")>>, StrOffset(<<120>>)))}

InitPair ==
    /\ tool = "orchestrate_mapping"
    /\ pc = "start"
    /\ offset = 0
    /\ objects = <<>>
    /\ forest = EmptyForest
    /\ sent = <<>>
    /\ pages = <<>>
    /\ active_scene = ""
    /\ commit_response = NoResponse
    /\ sidecar = FALSE
    /\ result = NoResult
    /\ total_count = 0
    /\ diagram_suggestion = NoSuggestion
    /\ diagrams = <<>>
    /\ rows = <<>>
    /\ summary = NoSummary
    /\ grouping_lenses = NoLenses
    /\ suspended = StartFrame
    /\ CliStart
    /\ environ = DefaultEnviron

\* "objects" is one list of the module, which the resumed call finds as the
\* other call left it
ResumedObjectsShared(fr) == objects

\* "objects" is a local of the call: the resumed call finds its own list
ResumedObjects(fr) == fr.objects

\* the event loop suspends the running call at its await and resumes the
\* other one
Switch ==
    /\ suspended # NoFrame
    /\ suspended' = Frame
    /\ tool' = suspended.tool
    /\ pc' = suspended.pc
    /\ offset' = suspended.offset
    /\ objects' = ResumedObjects(suspended)
    /\ forest' = suspended.forest
    /\ sent' = suspended.sent
    /\ pages' = suspended.pages
    /\ active_scene' = suspended.active_scene
    /\ commit_response' = suspended.commit_response
    /\ result' = suspended.result
    /\ total_count' = suspended.total_count
    /\ diagram_suggestion' = suspended.diagram_suggestion
    /\ diagrams' = suspended.diagrams
    /\ rows' = suspended.rows
    /\ summary' = suspended.summary
    /\ grouping_lenses' = suspended.grouping_lenses
    /\ UNCHANGED <<sidecar, cliVars>>

\* a page arrives for the running call
PairPageReturns ==
    /\ PageReturns
    /\ pages'[Len(pages')] \in PairResponses

NextPair ==
    \/ CallTool
    \/ PreflightReturns
    \/ ActiveReturns
    \/ PairPageReturns
    \/ CommitReturns
    \/ InfoReturns
    \/ SendRaises
    \/ Cancel
    \/ Switch

SpecPair == InitPair /\ [][NextPair]_vars

-----------------------------------------------------------------------------
(* Properties of interleaved requests *)

\* the records of the pages, in order; a page that failed gives none
RECURSIVE Accumulated(_)
Accumulated(pgs) ==
    IF pgs = <<>> THEN <<>>
    ELSE Accumulated(SubSeq(pgs, 1, Len(pgs) - 1))
           \o (IF Succeeded(pgs[Len(pgs)]) THEN pgs[Len(pgs)].data.objects ELSE <<>>)

\* the records, forest, diagrams and committed rows of a call are those of
\* the pages it received
OwnPagesOnly(fr) ==
    LET acc == Accumulated(fr.pages)
        tree == SortForest(build_tree(acc))
        commits == SelectSeq(fr.sent, IsCommit)
    IN /\ fr.objects = acc
       /\ IF commits = <<>>
          THEN fr.forest = EmptyForest /\ fr.diagrams = <<>> /\ fr.rows = <<>>
          ELSE /\ fr.forest = tree
               /\ fr.diagrams = build_diagrams(acc, tree,
                                    suggest_diagram_counts(Len(acc)).diagramCount)
               /\ fr.rows = build_hierarchy_rows(acc)
               /\ commits = <<CommitTable(build_hierarchy_rows(acc))>>

\* C24: however two requests interleave at their awaits, the records, the
\* forest, the diagrams and the committed rows of each depend only on the
\* pages that request received
C24_RequestsIndependent ==
    (tool = "orchestrate_mapping" /\ suspended # NoFrame) =>
        OwnPagesOnly(Frame) /\ OwnPagesOnly(suspended)

C24_Witness ==
    /\ suspended # NoFrame
    /\ pc = "awaitCommit"
    /\ Len(pages) = 2
    /\ rows # <<>>
    /\ suspended.pc = "awaitPage"
    /\ Len(suspended.pages) = 1
    /\ suspended.objects # <<>>

====
